---- MODULE Spec2Model ----
(***************************************************************************)
(* State-machine model of the PlummyScrapper normalisation pipeline:       *)
(*   - ProductProcessor.parse_product_detail (product_processor.py)        *)
(*   - CategoryFilter.is_child_of            (category_filter.py)          *)
(* Strings that the code inspects character by character (size labels,     *)
(* titles) are sequences of one-character strings; strings that are only   *)
(* compared (attribute names, URLs) are TLA+ strings.                      *)
(***************************************************************************)
EXTENDS Integers, Sequences, FiniteSets, TLC

VARIABLES
    processed_count,    \* ProductProcessor.processed_count
    valid_count,        \* ProductProcessor.valid_count
    invalid_reasons,    \* ProductProcessor.invalid_reasons (reason -> count)
    product_data,       \* argument of the pending / last parse_product_detail call
    reference_sku_id,   \* argument: 0 stands for None
    category_ids,       \* argument: <<>> stands for None / []
    result,             \* value returned by the last parse_product_detail call
    prev_result,        \* value returned by the call before it on the same arguments
    repeat_calls,       \* number of calls made on the current arguments
    categories_flat,    \* CategoryFilter.categories_flat (id -> parent id)
    child_call,         \* last is_child_of call and its outcome
    filter_call,        \* analyze_sizes / filter_categories call and its outcome
    price_call,         \* calculate_price call and its outcome
    products,           \* rows of the products table with their product_variants rows
    title_call,         \* clean_title calls on one title and what they returned
    limiter,            \* the RateLimiter object, its lock and the clock
    limiter_tasks,      \* the coroutines calling the limiter: position and wake-up time
    scraper,            \* PoizonScraper.api_requests and .successful_requests
    fetches,            \* the calls of the scraper's detail methods, one per coroutine
    controller,         \* ExecutionController.paused, .restart_requested, .stop_monitoring
    input_thread,       \* the thread of monitor_input: its position and commands read
    pausable            \* the frame of pausable_loop and of its check_pause call

vars == <<processed_count, valid_count, invalid_reasons, product_data,
          reference_sku_id, category_ids, result, prev_result, repeat_calls,
          categories_flat, child_call, filter_call, price_call, products,
          title_call, limiter, limiter_tasks, scraper, fetches,
          controller, input_thread, pausable>>
\* the state of the normalisation, pricing and storage components
core_vars == <<processed_count, valid_count, invalid_reasons, product_data,
               reference_sku_id, category_ids, result, prev_result, repeat_calls,
               categories_flat, child_call, filter_call, price_call, products>>
\* the state of the other components
limiter_vars == <<limiter, limiter_tasks>>
scraper_vars == <<scraper, fetches>>
control_vars == <<controller, input_thread, pausable>>
side_vars == <<title_call, limiter_vars, scraper_vars, control_vars>>

(***************************************************************************)
(* Bounds of the model.                                                    *)
(***************************************************************************)
MaxSkus == 2        \* SKUs per document (size / filter family)
MaxTiers == 3       \* price tiers per SKU, priceInfo and price.prices together
MaxCalls == 2       \* parse_product_detail calls per processor
MaxSizes == 2       \* size labels per analyze_sizes / filter_categories call
MaxCategories == 3  \* category ids per filter_categories call
MaxTasks == 2        \* coroutines sharing the rate limiter
MaxTime == 6         \* seconds the clock of the rate limiter runs
MaxErrors == 2       \* handle_rate_limit_error calls
MaxItems == 3        \* items given to pausable_loop
MaxCommands == 4     \* commands the input thread reads
MaxRetries == 3      \* largest max_retries given to a detail method of the scraper
MaxTitleLen == 3     \* characters of a title given to clean_title
MaxProducts == 1    \* rows of the products table

(***************************************************************************)
(* Text primitives (Python str methods used by the code).                  *)
(***************************************************************************)
Digits == <<"0", "1", "2", "3", "4", "5", "6", "7", "8", "9">>
LowerLetters == <<"a", "b", "c", "d", "e", "f", "g", "h", "i", "j", "k", "l", "m",
                  "n", "o", "p", "q", "r", "s", "t", "u", "v", "w", "x", "y", "z">>
UpperLetters == <<"A", "B", "C", "D", "E", "F", "G", "H", "I", "J", "K", "L", "M",
                  "N", "O", "P", "Q", "R", "S", "T", "U", "V", "W", "X", "Y", "Z">>
\* Non-ASCII characters occurring in the model's inputs, written by code point:
\* U+5BBD and U+7A84 (the width markers of the code), U+5747 U+7801 ("one size"),
\* U+70ED U+9500; and the symbols U+2764 (heart), U+3010, U+3011, U+2605.
CjkLetters == {"U+5BBD", "U+7A84", "U+5747", "U+7801", "U+70ED", "U+9500"}
\* U+FE0F is the variation selector that follows the heart in the emoji.
Symbols == {"U+2764", "U+FE0F", "U+3010", "U+3011", "U+2605"}
\* what the pattern \s and str.strip() take for whitespace: the space, the tab
\* and, for a str pattern, Unicode spaces such as U+3000 (ideographic space)
WhiteSpace == {" ", "\t", "U+3000"}

IsDigitCh(c) == \E i \in 1..10 : Digits[i] = c
DigitVal(c) == (CHOOSE i \in 1..10 : Digits[i] = c) - 1
IsLowerCh(c) == \E i \in 1..26 : LowerLetters[i] = c
IsUpperCh(c) == \E i \in 1..26 : UpperLetters[i] = c
IsAsciiLetterCh(c) == IsLowerCh(c) \/ IsUpperCh(c)
IsSpaceCh(c) == c \in WhiteSpace
IsAsciiCh(c) == c \notin (CjkLetters \cup Symbols \cup {"U+3000"})
\* str.isalpha is Unicode-aware: CJK ideographs are letters, symbols are not
IsAlphaCh(c) == IsAsciiLetterCh(c) \/ c \in CjkLetters
UpperCh(c) == IF IsLowerCh(c) THEN UpperLetters[CHOOSE i \in 1..26 : LowerLetters[i] = c]
              ELSE c

Upper(s) == [i \in 1..Len(s) |-> UpperCh(s[i])]
AnyDigit(s) == \E i \in 1..Len(s) : IsDigitCh(s[i])
IsAlpha(s) == Len(s) > 0 /\ \A i \in 1..Len(s) : IsAlphaCh(s[i])
IsAscii(s) == \A i \in 1..Len(s) : IsAsciiCh(s[i])
Contains(sub, s) ==
    \E i \in 1..(Len(s) - Len(sub) + 1) : SubSeq(s, i, i + Len(sub) - 1) = sub
EndsWith(s, suffix) ==
    Len(s) >= Len(suffix) /\ SubSeq(s, Len(s) - Len(suffix) + 1, Len(s)) = suffix

RECURSIVE LStrip(_)
LStrip(s) == IF s # <<>> /\ IsSpaceCh(Head(s)) THEN LStrip(Tail(s)) ELSE s
RECURSIVE RStrip(_)
RStrip(s) == IF s # <<>> /\ IsSpaceCh(s[Len(s)]) THEN RStrip(SubSeq(s, 1, Len(s) - 1))
             ELSE s
Strip(s) == RStrip(LStrip(s))

RECURSIVE NumVal(_)
NumVal(ds) == IF ds = <<>> THEN 0
              ELSE 10 * NumVal(SubSeq(ds, 1, Len(ds) - 1)) + DigitVal(ds[Len(ds)])

RECURSIVE StrOfNat(_)
StrOfNat(n) == IF n < 10 THEN <<Digits[n + 1]>>
               ELSE StrOfNat(n \div 10) \o <<Digits[(n % 10) + 1]>>

(***************************************************************************)
(* float(s).  A float is held in tenths (38.5 is 385); NotAFloat stands    *)
(* for ValueError.  Accepted: digits with at most one ".", surrounded by   *)
(* optional whitespace; the labels of the model carry at most one          *)
(* fractional digit, signs and exponents do not occur.                     *)
(***************************************************************************)
NotAFloat == 0 - 1
FloatOfStripped(t) ==
    LET dots == {i \in 1..Len(t) : t[i] = "."}
        dot == IF dots = {} THEN Len(t) + 1 ELSE CHOOSE i \in dots : TRUE
        ip == SubSeq(t, 1, dot - 1)
        fp == SubSeq(t, dot + 1, Len(t))
    IN  IF /\ \A i \in 1..Len(t) : IsDigitCh(t[i]) \/ t[i] = "."
           /\ Cardinality(dots) <= 1
           /\ Len(ip) + Len(fp) > 0
        THEN 10 * NumVal(ip) + (IF fp = <<>> THEN 0 ELSE DigitVal(fp[1]))
        ELSE NotAFloat
ParseFloat(s) == FloatOfStripped(Strip(s))
FloatIsInteger(f) == f % 10 = 0
\* str(int(f))
StrOfInt(f) == StrOfNat(f \div 10)

(***************************************************************************)
(* ProductProcessor.clean_title                                            *)
(***************************************************************************)
\* re.sub(r'[^A-Za-z0-9\s]+', '', title)
RECURSIVE KeepAlnumSpace(_)
KeepAlnumSpace(s) ==
    IF s = <<>> THEN <<>>
    ELSE IF IsAsciiLetterCh(Head(s)) \/ IsDigitCh(Head(s)) \/ IsSpaceCh(Head(s))
         THEN <<Head(s)>> \o KeepAlnumSpace(Tail(s))
         ELSE KeepAlnumSpace(Tail(s))
\* re.sub(r'\s+', ' ', title): each run of whitespace becomes one space
RECURSIVE CollapseSpaces(_)
CollapseSpaces(s) ==
    IF s = <<>> THEN <<>>
    ELSE IF ~IsSpaceCh(s[1]) THEN <<Head(s)>> \o CollapseSpaces(Tail(s))
    ELSE IF Len(s) >= 2 /\ IsSpaceCh(s[2]) THEN CollapseSpaces(Tail(s))
    ELSE <<" ">> \o CollapseSpaces(Tail(s))
\* clean_title without the final strip()
clean_title_unstripped(title) ==
    IF title = <<>> THEN <<>> ELSE CollapseSpaces(KeepAlnumSpace(title))
clean_title(title) ==
    IF title = <<>> THEN <<>> ELSE Strip(CollapseSpaces(KeepAlnumSpace(title)))

(***************************************************************************)
(* Class constants and literals of ProductProcessor.                       *)
(***************************************************************************)
VALID_CLOTHING_SIZES ==
    { <<"X", "X", "X", "S">>, <<"X", "X", "S">>, <<"X", "S">>, <<"S">>, <<"M">>, <<"L">>,
      <<"X", "L">>, <<"X", "X", "L">>, <<"X", "X", "X", "L">>, <<"4", "X", "L">>,
      <<"5", "X", "L">>, <<"6", "X", "L">>, <<"7", "X", "L">> }
\* the first name is U+989C U+8272
ColorNames == {"U+989C U+8272", "Color", "color"}
\* U+5C3A U+7801, U+5C3A U+5BF8, "Size", "size", U+7801
SizeNames == {"U+5C3A U+7801", "U+5C3A U+5BF8", "Size", "size", "U+7801"}
ONE_SIZE == <<"O", "N", "E", " ", "S", "I", "Z", "E">>
\* width_indicators of fallback 1 (line 506) and of fallback 2 (line 556)
WidthIndicators1 ==
    { <<"D">>, <<"E">>, <<"W">>, <<"E", "E">>, <<"E", "E", "E">>, <<"2", "E">>, <<"3", "E">>,
      <<"4", "E">>, <<"D", "U+5BBD">>, <<"E", "U+5BBD">>, <<"2", "E", "U+5BBD">>,
      <<"U+5BBD">>, <<"U+7A84">> }
WidthIndicators2 ==
    { <<"D">>, <<"E">>, <<"W">>, <<"E", "E">>, <<"E", "E", "E">>, <<"2", "E">>, <<"3", "E">>,
      <<"4", "E">>, <<"D", "U+5BBD">>, <<"E", "U+5BBD">>, <<"2", "E", "U+5BBD">> }
MaxFallbackLen == 10
MinShoeSize == 330      \* 33.0, in tenths
MaxShoeSize == 500      \* 50.0, in tenths
FastDeliveryMax == 4
DefaultDeliveryMax == 999
BulkTradeType == 95
FenPerYuan == 100
SortLast == 9990        \* the sort key 999, in tenths
UnknownSizeOrder == 999
ReasonNames == {"no_spu_id", "empty_title", "no_images", "no_skus",
                "no_price_for_size", "no_valid_variants", "processing_error"}
\* CategoryFilter.ONE_SIZE_CATEGORIES
ONE_SIZE_CATEGORIES == {119, 123, 124, 125, 131, 132, 133, 1182, 1183}

\* category_filter.is_one_size_category_check / CategoryFilter.has_one_size_category
is_one_size_category_check(ids) ==
    \E i \in 1..Len(ids) : ids[i] \in ONE_SIZE_CATEGORIES

\* the value parse_product_detail returns for None
NoneResult == [ok |-> FALSE, raised |-> FALSE, spu_id |-> 0, title |-> <<>>,
               main_image_url |-> "", images |-> <<>>, variants |-> <<>>]

(***************************************************************************)
(* parse_product_detail, lines 156-281: identifier, title, images.         *)
(***************************************************************************)
\* the least index of a set, 0 if it is empty (the match a for loop breaks at)
Least(S) == IF S = {} THEN 0 ELSE CHOOSE i \in S : \A j \in S : i <= j

ExtractSpuId(doc) == IF doc.spuId # 0 THEN doc.spuId ELSE doc.detail_spuId

\* doc.titles lists the values found at the probed locations, in probe order
CleanAt(titles, i) == IF i = 0 THEN <<>> ELSE clean_title(titles[i])
ExtractTitle(doc) ==
    CleanAt(doc.titles, Least({k \in 1..Len(doc.titles) : doc.titles[k] # <<>>}))

LogoAt(doc, ref, hit) ==
    IF ref # 0 /\ hit # 0 THEN doc.skus[hit].logoUrl ELSE doc.logoUrl
ExtractLogoUrl(doc, ref) ==
    LogoAt(doc, ref,
           Least({k \in 1..Len(doc.skus) :
                      doc.skus[k].skuId = ref /\ doc.skus[k].logoUrl # ""}))

\* image.spuImage.images: an element is a dict with a url or a plain string
RECURSIVE ExtractImages(_)
ExtractImages(imgs) ==
    IF imgs = <<>> THEN <<>>
    ELSE (IF Head(imgs).isdict /\ Head(imgs).url = "" THEN <<>> ELSE <<Head(imgs).url>>)
         \o ExtractImages(Tail(imgs))

WithLogo(logo_url, images) == (IF logo_url # "" THEN <<logo_url>> ELSE <<>>) \o images
AllImages(doc, ref) == WithLogo(ExtractLogoUrl(doc, ref), ExtractImages(doc.images))

(***************************************************************************)
(* parse_product_detail, lines 311-448: the size map built from            *)
(* saleProperties, the primary colour and the product's size type.         *)
(***************************************************************************)
FirstLevel1(props) == Least({k \in 1..Len(props) : props[k].level = 1})
Level1Id(props, p) == IF p = 0 THEN 0 ELSE props[p].propertyValueId

\* lines 341-352: the saleProperties entry of the id decides whether it is a colour
IsColorAt(plist, sp) == sp # 0 /\ plist[sp].name \in ColorNames
IsColorId(plist, pvid) ==
    IsColorAt(plist, Least({k \in 1..Len(plist) : plist[k].propertyValueId = pvid}))

\* lines 331-360: the colour of the reference SKU, 0 (None) when it is not a colour
ColorOfSku(doc, s) ==
    IF s = 0 \/ Level1Id(doc.skus[s].properties, FirstLevel1(doc.skus[s].properties)) = 0
    THEN 0
    ELSE IF IsColorId(doc.saleProperties,
                      Level1Id(doc.skus[s].properties, FirstLevel1(doc.skus[s].properties)))
         THEN Level1Id(doc.skus[s].properties, FirstLevel1(doc.skus[s].properties))
         ELSE 0
ReferenceColor(doc, ref) ==
    IF ref = 0 THEN 0
    ELSE ColorOfSku(doc, Least({k \in 1..Len(doc.skus) : doc.skus[k].skuId = ref}))

\* lines 362-373: when still None, the first level-1 colour of saleProperties
ImplicitColor(plist) ==
    Level1Id(plist, Least({k \in 1..Len(plist) :
                               plist[k].level = 1 /\ plist[k].name \in ColorNames}))
ColorOr(from_reference, implicit) == IF from_reference # 0 THEN from_reference ELSE implicit
PrimaryColorId(doc, ref) == ColorOr(ReferenceColor(doc, ref), ImplicitColor(doc.saleProperties))

\* line 377
IsSizeProperty(prop) ==
    prop.level = 2 \/ (prop.level = 1 /\ prop.name \in SizeNames)

\* lines 362-379: property_to_size, a later entry overwriting an earlier one
SizeEntries(plist) ==
    {k \in 1..Len(plist) : /\ plist[k].propertyValueId # 0
                           /\ plist[k].value # <<>>
                           /\ IsSizeProperty(plist[k])}
LastEntry(plist, idx, id) ==
    CHOOSE k \in idx : /\ plist[k].propertyValueId = id
                       /\ \A j \in idx : plist[j].propertyValueId = id => j <= k
MapOfEntries(plist, idx) ==
    [id \in {plist[k].propertyValueId : k \in idx} |-> plist[LastEntry(plist, idx, id)].value]
PropertyToSize(doc) == MapOfEntries(doc.saleProperties, SizeEntries(doc.saleProperties))

\* lines 409-448
TypeOfSizes(one_size_category, values) ==
    IF one_size_category THEN "accessories"
    ELSE IF \E v \in values : Upper(v) \in VALID_CLOTHING_SIZES THEN "clothing"
    ELSE IF values # {} /\ ~\E v \in values : AnyDigit(v) THEN "accessories"
    ELSE "shoes"
Values(f) == {f[x] : x \in DOMAIN f}
SizeType(doc, cats) ==
    TypeOfSizes(cats # <<>> /\ is_one_size_category_check(cats), Values(PropertyToSize(doc)))

\* lines 417 and 440: the size map is emptied for accessories
EffectivePropertyToSize(doc, size_type) ==
    IF size_type = "accessories" THEN <<>> ELSE PropertyToSize(doc)

(***************************************************************************)
(* parse_product_detail, lines 493-647: the size of one SKU.               *)
(***************************************************************************)
\* lines 494-501
SizeAt(props, p2s, i) == IF i = 0 THEN <<>> ELSE p2s[props[i].propertyValueId]
DirectSize(props, p2s) ==
    SizeAt(props, p2s,
           Least({k \in 1..Len(props) : /\ props[k].propertyValueId \in DOMAIN p2s
                                        /\ props[k].level \in {1, 2}}))

ValueAt(props, i) == IF i = 0 THEN <<>> ELSE Strip(props[i].propertyValue)

\* line 517
IsWidth1(s) == \E ind \in WidthIndicators1 : Contains(ind, s) \/ Upper(s) = ind

\* lines 508-525
Fallback1(props) ==
    ValueAt(props,
            Least({k \in 1..Len(props) : /\ props[k].level = 2
                                         /\ props[k].propertyValue # <<>>
                                         /\ ~IsWidth1(Strip(props[k].propertyValue))}))

\* lines 542-570: the tests a stripped property value passes in fallback 2
Fallback2Accepts(s, size_type) ==
    /\ IsAscii(s)
    /\ Len(s) <= MaxFallbackLen
    /\ ~(Upper(s) \in WidthIndicators2 \/ EndsWith(Upper(s), <<"U+5BBD">>))
    /\ ~IsAlpha(s)
    /\ (size_type = "shoes" => AnyDigit(s))

\* lines 528-574
Fallback2(props, size_type) ==
    ValueAt(props,
            Least({k \in 1..Len(props) :
                       /\ props[k].propertyValue # <<>>
                       /\ Fallback2Accepts(Strip(props[k].propertyValue), size_type)}))

\* lines 586-593: the test a stripped field value passes in fallback 3
Fallback3Accepts(s, size_type) ==
    \/ size_type = "shoes" /\ AnyDigit(s)
    \/ size_type = "clothing" /\ Upper(s) \in VALID_CLOTHING_SIZES

\* lines 577-593: sku.sizeFields lists the values of size, sizeValue, sizeName, ...
FieldAt(fields, i) == IF i = 0 THEN <<>> ELSE Strip(fields[i])
Fallback3(sku, size_type) ==
    FieldAt(sku.sizeFields,
            Least({k \in 1..Len(sku.sizeFields) :
                       /\ sku.sizeFields[k] # <<>>
                       /\ Fallback3Accepts(Strip(sku.sizeFields[k]), size_type)}))

\* lines 597-613: re.search(r'(\d{2}(?:\.\d)?)\D*$', str(sku_id)) on an integer id
\* matches its last two digits
SizeInId(str) ==
    IF /\ Len(str) >= 2
       /\ MinShoeSize <= ParseFloat(SubSeq(str, Len(str) - 1, Len(str)))
       /\ ParseFloat(SubSeq(str, Len(str) - 1, Len(str))) <= MaxShoeSize
    THEN SubSeq(str, Len(str) - 1, Len(str)) ELSE <<>>
Fallback4(sku_id, size_type) ==
    IF size_type = "shoes" THEN SizeInId(StrOfNat(sku_id)) ELSE <<>>

\* lines 616-625: the last resort; <<>> makes the loop skip the SKU
Fallback5(size_type) == IF size_type = "accessories" THEN ONE_SIZE ELSE <<>>

\* "if not size_eu": a step runs only while no earlier one gave a size
OrElse(size_eu, fallback) == IF size_eu # <<>> THEN size_eu ELSE fallback

\* lines 493-625, the chain
ResolveSize(sku, size_type, p2s) ==
    OrElse(DirectSize(sku.properties, p2s),
    OrElse(Fallback1(sku.properties),
    OrElse(Fallback2(sku.properties, size_type),
    OrElse(Fallback3(sku, size_type),
    OrElse(Fallback4(sku.skuId, size_type),
           Fallback5(size_type))))))

\* lines 638-647: 40.0 -> 40 for shoes
Normalized(size_eu, size_float) ==
    IF size_float # NotAFloat /\ FloatIsInteger(size_float) THEN StrOfInt(size_float)
    ELSE size_eu
NormalizeSize(size_eu, size_type) ==
    IF size_type = "shoes" /\ size_eu # ONE_SIZE THEN Normalized(size_eu, ParseFloat(size_eu))
    ELSE size_eu

(***************************************************************************)
(* parse_product_detail, lines 670-858: the price of one SKU.              *)
(* A tier is [tradeType, timeDelivery, price, activePrice]; timeDelivery   *)
(* is a dict (with or without the key max) or null; an absent activePrice  *)
(* is 0 (both are falsy).                                                  *)
(***************************************************************************)
\* time_delivery.get('max', 999)
DeliveryMax(tier) ==
    IF tier.timeDelivery.hasmax THEN tier.timeDelivery.max ELSE DefaultDeliveryMax

\* IsFastStandard without the delivery window: any tier of type 2 counts
IsStandardAnyDelivery(tier) == tier.tradeType = 2

\* lines 699-701 and 797-799: trade_type == 2 and is_fast
IsFastStandard(tier) ==
    /\ tier.tradeType = 2
    /\ DeliveryMax(tier) <= FastDeliveryMax
    /\ tier.tradeType # BulkTradeType

FirstOfType(prices_list, trade_type) ==
    Least({k \in 1..Len(prices_list) : prices_list[k].tradeType = trade_type})

\* lines 694-705 and 792-802: the first tier of type 2 with fast delivery
FirstFast(prices_list) ==
    Least({k \in 1..Len(prices_list) : /\ prices_list[k].timeDelivery.isdict
                                       /\ IsFastStandard(prices_list[k])})

\* a tier whose timeDelivery is null: time_delivery.get raises AttributeError
FirstNull(prices_list) ==
    Least({k \in 1..Len(prices_list) : ~prices_list[k].timeDelivery.isdict})

\* FirstAllowed with the discount tier (type 8) moved to the front of the order
FirstAllowedDiscountFirst(std, t12, t0, t8, t11) ==
    IF t8 # 0 THEN t8
    ELSE IF std # 0 THEN std
    ELSE IF t12 # 0 THEN t12
    ELSE IF t0 # 0 THEN t0
    ELSE t11

\* lines 708-753 and 805-834: a later scan runs only when nothing is selected yet
FirstAllowed(std, t12, t0, t8, t11) ==
    IF std # 0 THEN std
    ELSE IF t12 # 0 THEN t12
    ELSE IF t0 # 0 THEN t0
    ELSE IF t8 # 0 THEN t8
    ELSE t11

\* the first scan reads time_delivery.get of every tier up to its match
Selection(bad, std, index) ==
    IF bad # 0 /\ (std = 0 \/ bad < std) THEN [raised |-> TRUE, index |-> 0]
    ELSE [raised |-> FALSE, index |-> index]

\* lines 690-753 and 788-834: [raised, index]; index 0 when no tier is allowed
SelectTier(prices_list) ==
    Selection(FirstNull(prices_list), FirstFast(prices_list),
              FirstAllowed(FirstFast(prices_list), FirstOfType(prices_list, 12),
                           FirstOfType(prices_list, 0), FirstOfType(prices_list, 8),
                           FirstOfType(prices_list, 11)))

\* lines 763-767: activePrice unless absent or not positive, then price
PriceInfoRaw(tier) == IF tier.activePrice > 0 THEN tier.activePrice ELSE tier.price

\* line 838: price.prices[] reads the plain price only
DetailedRaw(tier) == tier.price

\* lines 774 and 841 (the prices of the model are whole yuan: multiples of 100 fen)
ToCny(price_raw) == price_raw \div FenPerYuan

\* kind is "price", "none" (price_cny stays None), "skip" (continue) or "raise"
NoPrice == [kind |-> "none", price_cny |-> 0, source |-> "", type |-> 0]
Priced(price_raw, source, type) ==
    IF price_raw > 0
    THEN [kind |-> "price", price_cny |-> ToCny(price_raw), source |-> source, type |-> type]
    ELSE NoPrice

\* lines 756-776
PriceInfoOutcome(prices_list, sel) ==
    IF prices_list = <<>> THEN NoPrice
    ELSE IF sel.raised THEN [NoPrice EXCEPT !.kind = "raise"]
    ELSE IF sel.index = 0 THEN [NoPrice EXCEPT !.kind = "skip"]
    ELSE Priced(PriceInfoRaw(prices_list[sel.index]), "priceInfo", 0)

\* lines 675-678: price_info_skus[str(sku_id)].prices
PriceInfoList(sku, doc) ==
    IF sku.skuId \in DOMAIN doc.priceInfo THEN doc.priceInfo[sku.skuId] ELSE <<>>

\* lines 674-776: priceInfo
PriceFromPriceInfo(sku, doc) ==
    PriceInfoOutcome(PriceInfoList(sku, doc), SelectTier(PriceInfoList(sku, doc)))

\* lines 836-847
DetailedOutcome(prices_list, sel) ==
    IF prices_list = <<>> THEN NoPrice
    ELSE IF sel.raised THEN [NoPrice EXCEPT !.kind = "raise"]
    ELSE IF sel.index = 0 THEN [NoPrice EXCEPT !.kind = "skip"]
    ELSE Priced(DetailedRaw(prices_list[sel.index]), "price.prices[]",
                prices_list[sel.index].tradeType)

\* lines 780-847: price.prices[]
PriceFromSku(sku) == DetailedOutcome(sku.prices, SelectTier(sku.prices))

\* line 780: price.prices[] is read only when priceInfo left price_cny at None
OrElsePrice(first, second) == IF first.kind = "none" THEN second ELSE first

\* lines 670-858
ResolvePrice(sku, doc) == OrElsePrice(PriceFromPriceInfo(sku, doc), PriceFromSku(sku))

(***************************************************************************)
(* parse_product_detail, lines 457-879: one iteration of the SKU loop.     *)
(***************************************************************************)
\* lines 471-474
SkippedByReference(sku, size_type, ref) ==
    size_type = "accessories" /\ ref # 0 /\ sku.skuId # ref

\* lines 482-491
SkippedByColor(sku, size_type, primary_color_id) ==
    /\ size_type # "accessories" /\ primary_color_id # 0
    /\ Level1Id(sku.properties, FirstLevel1(sku.properties)) \notin {0, primary_color_id}

\* SkippedAsDuplicate with the found_one_size_variant test lost
SkippedAsDuplicateNever(size_eu, size_type, ref, found_one_size_variant) == FALSE

\* line 630
SkippedAsDuplicate(size_eu, size_type, ref, found_one_size_variant) ==
    size_type = "accessories" /\ size_eu = ONE_SIZE /\ found_one_size_variant /\ ref = 0

\* SkippedByStatus testing status == 0 instead of status != 1
SkippedByStatusZeroOnly(status) == status = 0

\* line 661
SkippedByStatus(status) == status # 1

\* lines 861-863: self.price_formula is None after ProductProcessor()
PriceRub(price_cny) == price_cny

Skipped == [kind |-> "skip"]

\* lines 855-874
StepWithPrice(sku, size_eu, size_type, price) ==
    IF price.kind # "price" THEN [kind |-> price.kind]
    ELSE [kind |-> "variant",
          variant |-> [sku_id |-> sku.skuId, size_eu |-> size_eu,
                       size_type |-> size_type, price_cny |-> price.price_cny,
                       price_rub |-> PriceRub(price.price_cny),
                       is_available |-> TRUE, stock_status |-> sku.status,
                       price_source |-> price.source, price_type |-> price.type]]

\* lines 616-663
StepWithSize(sku, doc, ref, size_type, found_one_size_variant, resolved) ==
    IF resolved = <<>> THEN Skipped
    ELSE IF SkippedAsDuplicate(resolved, size_type, ref, found_one_size_variant) THEN Skipped
    ELSE IF SkippedByStatus(sku.status) THEN Skipped
    ELSE StepWithPrice(sku, NormalizeSize(resolved, size_type), size_type,
                       ResolvePrice(sku, doc))

\* the outcome of the loop body for one SKU
SkuStep(sku, doc, ref, size_type, p2s, primary_color_id, found_one_size_variant) ==
    IF SkippedByReference(sku, size_type, ref) THEN Skipped
    ELSE IF SkippedByColor(sku, size_type, primary_color_id) THEN Skipped
    ELSE StepWithSize(sku, doc, ref, size_type, found_one_size_variant,
                      ResolveSize(sku, size_type, p2s))

\* found_one_size_variant kept on the processor instead of reset per call
InitialFoundOneSizeKept(self) == self.valid_count > 0

\* line 455
InitialFoundOneSize(self) == FALSE

\* the effect of one iteration on variants, found_one_size_variant, the number of
\* no_price_for_size entries logged and whether an exception was raised
Accumulate(acc, step, size_type, ref) ==
    IF step.kind = "raise" THEN [acc EXCEPT !.raised = TRUE]
    ELSE IF step.kind = "none" THEN [acc EXCEPT !.noprice = @ + 1]
    ELSE IF step.kind = "variant"
         THEN [acc EXCEPT !.variants = Append(@, step.variant),
                          !.found = @ \/ (/\ size_type = "accessories"
                                          /\ step.variant.size_eu = ONE_SIZE
                                          /\ ref = 0)]
    ELSE acc

\* lines 457-879: the loop
RECURSIVE SkuLoop(_, _, _, _, _, _, _)
SkuLoop(i, doc, ref, size_type, p2s, primary_color_id, acc) ==
    IF i > Len(doc.skus) \/ acc.raised THEN acc
    ELSE SkuLoop(i + 1, doc, ref, size_type, p2s, primary_color_id,
                 Accumulate(acc,
                            SkuStep(doc.skus[i], doc, ref, size_type, p2s,
                                    primary_color_id, acc.found),
                            size_type, ref))

(***************************************************************************)
(* parse_product_detail as a whole.  The value is the returned record,     *)
(* the entries added to invalid_reasons and whether valid_count grows.     *)
(***************************************************************************)
NoLog == [r \in ReasonNames |-> 0]
Logged(reason, n) == [r \in ReasonNames |-> IF r = reason THEN n ELSE 0]
AddLog(a, b) == [r \in ReasonNames |-> a[r] + b[r]]

\* lines 898-902: safe_float_sort, in tenths
safe_float_sort(x) == IF ParseFloat(x) = NotAFloat THEN SortLast ELSE ParseFloat(x)

\* line 906: size_order, the position in the table being the ordinal
size_order ==
    << <<"X", "X", "X", "S">>, <<"X", "X", "S">>, <<"X", "S">>, <<"S">>, <<"M">>, <<"L">>,
       <<"X", "L">>, <<"X", "X", "L">>, <<"X", "X", "X", "L">>, <<"4", "X", "L">>,
       <<"5", "X", "L">>, <<"6", "X", "L">>, <<"7", "X", "L">> >>

\* line 907: size_order.get(str(x).upper(), 999)
ClothingKey(x) ==
    IF \E k \in 1..Len(size_order) : size_order[k] = Upper(x)
    THEN CHOOSE k \in 1..Len(size_order) : size_order[k] = Upper(x)
    ELSE UnknownSizeOrder

\* lines 893-907: the key sizes_list is sorted by (accessories are left as they are)
SizeKey(size_eu, size_type) ==
    IF size_type = "shoes" THEN safe_float_sort(size_eu)
    ELSE IF size_type = "clothing" THEN ClothingKey(size_eu)
    ELSE 0

\* ReturnedVariants with the sort of sizes_list applied to the variants themselves
ReturnedVariantsSorted(variants, size_type) ==
    SortSeq(variants, LAMBDA a, b : SizeKey(a.size_eu, size_type) < SizeKey(b.size_eu, size_type))

\* lines 891-928: the size summary is sorted for the log line only; the record
\* carries the variants as the loop appended them
ReturnedVariants(variants, size_type) == variants

\* ExceptionHandler that logs and lets the exception go on to the caller
ExceptionHandlerReraise(logged) ==
    [ret |-> [NoneResult EXCEPT !.raised = TRUE],
     logged |-> AddLog(logged, Logged("processing_error", 1)), valid |-> FALSE]

\* lines 930-935: except Exception -> processing_error, return None
ExceptionHandler(logged) ==
    [ret |-> NoneResult, logged |-> AddLog(logged, Logged("processing_error", 1)),
     valid |-> FALSE]

\* lines 881-887: the product fails when the loop produced nothing
NoVariants(variants) == variants = <<>>

\* an early return None after _log_invalid(reason)
Fail(reason) == [ret |-> NoneResult, logged |-> Logged(reason, 1), valid |-> FALSE]

\* lines 453-455 and the loop
RunLoop(self, doc, ref, size_type) ==
    SkuLoop(1, doc, ref, size_type, EffectivePropertyToSize(doc, size_type),
            PrimaryColorId(doc, ref),
            [variants |-> <<>>, found |-> InitialFoundOneSize(self),
             noprice |-> 0, raised |-> FALSE])

\* lines 881-935
Assemble(spu_id, title, all_images, size_type, loop) ==
    IF loop.raised THEN ExceptionHandler(Logged("no_price_for_size", loop.noprice))
    ELSE IF NoVariants(loop.variants)
         THEN [ret |-> NoneResult,
               logged |-> AddLog(Logged("no_price_for_size", loop.noprice),
                                 Logged("no_valid_variants", 1)),
               valid |-> FALSE]
    ELSE [ret |-> [ok |-> TRUE, raised |-> FALSE, spu_id |-> spu_id, title |-> title,
                   main_image_url |-> all_images[1], images |-> all_images,
                   variants |-> ReturnedVariants(loop.variants, size_type)],
          logged |-> Logged("no_price_for_size", loop.noprice),
          valid |-> TRUE]

ParseProductDetail(self, doc, ref, cats) ==
    IF ExtractSpuId(doc) = 0 THEN Fail("no_spu_id")
    ELSE IF ExtractTitle(doc) = <<>> THEN Fail("empty_title")
    ELSE IF AllImages(doc, ref) = <<>> THEN Fail("no_images")
    ELSE IF doc.skus = <<>> THEN Fail("no_skus")
    ELSE Assemble(ExtractSpuId(doc), ExtractTitle(doc), AllImages(doc, ref),
                  SizeType(doc, cats), RunLoop(self, doc, ref, SizeType(doc, cats)))

(***************************************************************************)
(* CategoryFilter.is_child_of.  The walk is deterministic, so it recurses  *)
(* without end exactly when it comes back to a category it has visited:    *)
(* Python then raises RecursionError.                                      *)
(***************************************************************************)
RECURSIVE IsChildOfWalk(_, _, _, _)
IsChildOfWalk(flat, category_id, parent_id, visited) ==
    IF category_id \notin DOMAIN flat THEN "False"
    ELSE IF flat[category_id] = parent_id THEN "True"
    ELSE IF flat[category_id] # 0
         THEN (IF flat[category_id] \in visited THEN "RecursionError"
               ELSE IsChildOfWalk(flat, flat[category_id], parent_id,
                                  visited \cup {flat[category_id]}))
    ELSE "False"

\* is_child_of opening with "if category_id == parent_id: return True"
is_child_of_reflexive(flat, category_id, parent_id) ==
    IF category_id = parent_id THEN "True"
    ELSE IsChildOfWalk(flat, category_id, parent_id, {category_id})

is_child_of(flat, category_id, parent_id) ==
    IsChildOfWalk(flat, category_id, parent_id, {category_id})

(***************************************************************************)
(* The documents the model feeds to parse_product_detail.                  *)
(***************************************************************************)
SeqsUpTo(S, n) == UNION {[1..k -> S] : k \in 0..n}

L40 == <<"4", "0">>
L42 == <<"4", "2">>
L400 == <<"4", "0", ".", "0">>
L385 == <<"3", "8", ".", "5">>
LM == <<"M">>
LXL == <<"X", "L">>
LD == <<"D">>
L20L == <<"2", "0", "L">>
LOneCjk == <<"U+5747", "U+7801">>

SaleProp(id, value, name, level) ==
    [propertyValueId |-> id, value |-> value, name |-> name, level |-> level]
ColourRed == SaleProp(1, <<"U+70ED">>, "U+989C U+8272", 1)
ColourBlack == SaleProp(2, <<"U+9500">>, "U+989C U+8272", 1)
ShoeProps == <<ColourRed, ColourBlack, SaleProp(11, L42, "U+5C3A U+7801", 2),
               SaleProp(12, L400, "U+5C3A U+7801", 2)>>
ClothingProps == <<ColourRed, ColourBlack, SaleProp(11, LXL, "U+5C3A U+7801", 2),
                   SaleProp(12, LM, "U+5C3A U+7801", 2)>>
AccessoryProps == <<ColourRed, SaleProp(11, LOneCjk, "U+5C3A U+7801", 2)>>
Level1SizeProps == <<SaleProp(1, L42, "Size", 1), SaleProp(2, L385, "Style", 1)>>
SalePropChoices == {<<>>, ShoeProps, ClothingProps, AccessoryProps, Level1SizeProps}

Tier(trade_type, td, price, active) ==
    [tradeType |-> trade_type, timeDelivery |-> td, price |-> price, activePrice |-> active]
Delivery(max) == [isdict |-> TRUE, hasmax |-> TRUE, max |-> max]
NoDeliveryMax == [isdict |-> TRUE, hasmax |-> FALSE, max |-> 0]
NullDelivery == [isdict |-> FALSE, hasmax |-> FALSE, max |-> 0]
T2fast == Tier(2, Delivery(3), 20000, 15000)
T2slow == Tier(2, Delivery(10), 21000, 16000)
T2nomax == Tier(2, NoDeliveryMax, 27000, 0)
T2zero == Tier(2, Delivery(4), 0, 0)
T12 == Tier(12, NoDeliveryMax, 22000, 0)
T0 == Tier(0, Delivery(3), 23000, 18000)
T8 == Tier(8, NoDeliveryMax, 12000, 0)
T11 == Tier(11, Delivery(10), 25000, 0)
T95 == Tier(95, Delivery(3), 9000, 8000)
TNull == Tier(12, NullDelivery, 26000, 0)
TierChoices == {T2fast, T2slow, T2nomax, T2zero, T12, T0, T8, T11, T95, TNull}

SkuProp(level, id, value) ==
    [level |-> level, propertyValueId |-> id, propertyValue |-> value]
Sku(props, status, prices, size_fields) ==
    [skuId |-> 0, logoUrl |-> "", properties |-> props, status |-> status,
     prices |-> prices, sizeFields |-> size_fields]
RedFirstSize == <<SkuProp(1, 1, <<>>), SkuProp(2, 11, <<>>)>>
RedSecondSize == <<SkuProp(1, 1, <<>>), SkuProp(2, 12, <<>>)>>
BlackFirstSize == <<SkuProp(1, 2, <<>>), SkuProp(2, 11, <<>>)>>
SkuChoices ==
    { Sku(RedFirstSize, 1, <<T2fast>>, <<>>),
      Sku(RedSecondSize, 1, <<T2fast>>, <<>>),
      Sku(BlackFirstSize, 1, <<T8>>, <<>>),
      Sku(<<SkuProp(2, 99, L385)>>, 1, <<T2fast>>, <<>>),
      Sku(<<SkuProp(2, 99, LOneCjk)>>, 1, <<T2fast>>, <<>>),
      Sku(<<SkuProp(2, 99, LD)>>, 1, <<T2fast>>, <<>>),
      Sku(<<SkuProp(1, 98, L20L)>>, 1, <<T2fast>>, <<>>),
      Sku(<<>>, 1, <<T12>>, <<LM, L42>>),
      Sku(RedFirstSize, 0, <<T2fast>>, <<>>),
      Sku(RedSecondSize, 2, <<T2fast>>, <<>>),
      Sku(RedFirstSize, 1, <<>>, <<>>),
      Sku(RedSecondSize, 1, <<TNull>>, <<>>) }

\* the skuId of the SKU at a position of the document; 1040 ends in a shoe size
SkuIdAt(i) == IF i = 2 THEN 1040 ELSE 10 + i
WithIds(skus) == [i \in 1..Len(skus) |-> [skus[i] EXCEPT !.skuId = SkuIdAt(i)]]

TitleGood == <<"A", "i", "r", " ", " ", "1", " ", "U+2764">>
TitleJunk == <<"U+3010", "U+70ED", "U+9500", "U+3011", " ">>
TitleChoices == {<<>>, <<TitleGood>>, <<TitleJunk>>, <<<<>>, TitleGood>>}
ImageDict(url) == [isdict |-> TRUE, url |-> url]
ImageStr(url) == [isdict |-> FALSE, url |-> url]
ImageChoices == {<<>>, <<ImageDict("u1")>>, <<ImageDict("")>>, <<ImageStr("")>>}

BaseDoc ==
    [spuId |-> 7, detail_spuId |-> 0, titles |-> <<TitleGood>>, logoUrl |-> "u0",
     images |-> <<>>, saleProperties |-> ShoeProps,
     skus |-> WithIds(<<Sku(RedFirstSize, 1, <<T2fast>>, <<>>)>>), priceInfo |-> <<>>]

Input(doc, ref, cats) == [doc |-> doc, ref |-> ref, cats |-> cats]

\* identifier, title and image variety on a one-SKU document
HeaderInputs ==
    { Input([BaseDoc EXCEPT !.spuId = a, !.detail_spuId = b, !.titles = t,
                            !.logoUrl = l, !.images = im,
                            !.skus = <<[@[1] EXCEPT !.logoUrl = sl]>>], ref, <<>>) :
        a \in {0, 7}, b \in {0, 8}, t \in TitleChoices, l \in {"", "u0"},
        im \in ImageChoices, sl \in {"", "u2"}, ref \in {0, SkuIdAt(1)} }

\* size, colour, status and category variety
RefChoices == {0, SkuIdAt(1), SkuIdAt(2)}
\* no category, a one-size category (caps), a category that is not one-size
CategoryChoices == {<<>>, <<123>>}
CallChoices == (RefChoices \X CategoryChoices) \cup {<<0, <<103>>>>}
BodyInputs ==
    { Input([BaseDoc EXCEPT !.saleProperties = sp, !.skus = WithIds(skus)], rc[1], rc[2]) :
        sp \in SalePropChoices, skus \in SeqsUpTo(SkuChoices, MaxSkus), rc \in CallChoices }

\* price-tier variety: one SKU, MaxTiers tiers spread over priceInfo and price.prices
PriceListPairs ==
    UNION { [1..ij[1] -> TierChoices] \X [1..ij[2] -> TierChoices] :
              ij \in {q \in (0..MaxTiers) \X (0..MaxTiers) : q[1] + q[2] <= MaxTiers} }
PriceInputs ==
    { Input([BaseDoc EXCEPT !.skus = <<[@[1] EXCEPT !.prices = pr[2]]>>,
                            !.priceInfo = IF pr[1] = <<>> THEN <<>>
                                          ELSE SkuIdAt(1) :> pr[1]], 0, <<>>) :
        pr \in PriceListPairs }

\* the arguments a processor may be handed after its first product
\* reference variety: a colour and a size attribute, both of level 1; the first
\* SKU, the reference, carries the size attribute only
ColourAndSizeProps == <<ColourRed, SaleProp(98, L42, "Size", 1)>>
ReferenceSkus ==
    { Sku(<<SkuProp(1, 98, <<>>)>>, 1, <<T2fast>>, <<>>),
      Sku(<<SkuProp(1, 1, <<>>), SkuProp(1, 98, <<>>)>>, 1, <<T2fast>>, <<>>) }
ReferenceInputs ==
    { Input([BaseDoc EXCEPT !.saleProperties = ColourAndSizeProps, !.skus = WithIds(skus)],
            SkuIdAt(1), <<>>) :
        skus \in [1..MaxSkus -> ReferenceSkus] }

FollowUps ==
    { Input(BaseDoc, 0, <<>>),
      Input([BaseDoc EXCEPT !.titles = <<>>], 0, <<>>),
      Input([BaseDoc EXCEPT !.skus = WithIds(<<Sku(<<>>, 1, <<>>, <<>>),
                                               Sku(<<>>, 1, <<T0>>, <<>>)>>)],
            0, <<123>>) }

(***************************************************************************)
(* The category maps the model gives CategoryFilter.                       *)
(***************************************************************************)
MEN_PARENT_ID == 101
WOMEN_PARENT_ID == 102
CategoryIds == {MEN_PARENT_ID, WOMEN_PARENT_ID, 103, 154}
\* an id that no map holds
UnknownCategories == {999}
DefaultTree == (101 :> 0) @@ (102 :> 0) @@ (103 :> 101) @@ (154 :> 102)
CategoryMaps == [CategoryIds -> CategoryIds \cup {0}]

(***************************************************************************)
(* CategoryFilter.analyze_sizes and CategoryFilter.filter_categories.      *)
(* Sizes are floats in tenths, so WOMEN_MAX_SIZE = 39.0 is 390 and         *)
(* MEN_MIN_SIZE = 39.5 is 395.                                             *)
(***************************************************************************)
WOMEN_MAX_SIZE == 390
MEN_MIN_SIZE == 395

IsWomenSize(f) == f # NotAFloat /\ f <= WOMEN_MAX_SIZE
\* "size_num >= WOMEN_MAX_SIZE" in place of "size_num >= MEN_MIN_SIZE"
IsMenSizeFromWomenMax(f) == f # NotAFloat /\ f >= WOMEN_MAX_SIZE
IsMenSize(f) == f # NotAFloat /\ f >= MEN_MIN_SIZE

\* returns (has_women_sizes, has_men_sizes); a label float() rejects is passed over
analyze_sizes(sizes) ==
    [has_women_sizes |-> \E i \in 1..Len(sizes) : IsWomenSize(ParseFloat(sizes[i])),
     has_men_sizes   |-> \E i \in 1..Len(sizes) : IsMenSize(ParseFloat(sizes[i]))]

\* the list filter_categories appends cat_id to: if is_child_of(cat_id, 101) /
\* elif is_child_of(cat_id, 102) / else
BucketOfWalks(men_walk, women_walk) ==
    IF men_walk = "RecursionError" THEN "RecursionError"
    ELSE IF men_walk = "True" THEN "men"
    ELSE IF women_walk = "RecursionError" THEN "RecursionError"
    ELSE IF women_walk = "True" THEN "women"
    ELSE "other"
BucketOf(flat, cat_id) ==
    BucketOfWalks(is_child_of(flat, cat_id, MEN_PARENT_ID),
                  is_child_of(flat, cat_id, WOMEN_PARENT_ID))

RECURSIVE Bucket(_, _, _)
Bucket(flat, ids, name) ==
    IF ids = <<>> THEN <<>>
    ELSE (IF BucketOf(flat, Head(ids)) = name THEN <<Head(ids)>> ELSE <<>>)
         \o Bucket(flat, Tail(ids), name)

\* the gender lists the size analysis keeps, the "neither" case keeping none
KeptGendersFailClosed(has_women_sizes, has_men_sizes) ==
    IF has_women_sizes /\ has_men_sizes THEN {"men", "women"}
    ELSE IF has_women_sizes THEN {"women"}
    ELSE IF has_men_sizes THEN {"men"}
    ELSE {}
\* the gender lists the size analysis keeps
KeptGenders(has_women_sizes, has_men_sizes) ==
    IF has_women_sizes /\ has_men_sizes THEN {"men", "women"}
    ELSE IF has_women_sizes THEN {"women"}
    ELSE IF has_men_sizes THEN {"men"}
    ELSE {"men", "women"}

Returned(value) == [raised |-> "", value |-> value]
Raised(error) == [raised |-> error, value |-> <<>>]

\* result = other_categories, extended by the kept gender lists, men's first
Extended(other, men, women, kept) ==
    Returned(other \o (IF "men" \in kept THEN men ELSE <<>>)
                   \o (IF "women" \in kept THEN women ELSE <<>>))

FilterShoes(flat, ids, analysis) ==
    IF \E i \in 1..Len(ids) : BucketOf(flat, ids[i]) = "RecursionError"
    THEN Raised("RecursionError")
    ELSE Extended(Bucket(flat, ids, "other"), Bucket(flat, ids, "men"),
                  Bucket(flat, ids, "women"),
                  KeptGenders(analysis.has_women_sizes, analysis.has_men_sizes))

filter_categories(flat, ids, sizes, size_type) ==
    IF ids = <<>> \/ sizes = <<>> THEN Returned(ids)
    ELSE IF size_type # "shoes" THEN Returned(ids)
    ELSE FilterShoes(flat, ids, analyze_sizes(sizes))

(***************************************************************************)
(* The arguments the model gives analyze_sizes and filter_categories.      *)
(***************************************************************************)
L38 == <<"3", "8">>
L39 == <<"3", "9">>
L392 == <<"3", "9", ".", "2">>
L395 == <<"3", "9", ".", "5">>
SizeLabels == {L38, L39, L392, L395, L40, LM}
SizeLists == SeqsUpTo(SizeLabels, MaxSizes)
CategoryLists == SeqsUpTo(CategoryIds \cup UnknownCategories, MaxCategories)
\* every size list with size_type 'shoes'; a few with another size_type, which
\* filter_categories returns unfiltered before it looks at the sizes
OtherTypeSizeLists == {<<>>, <<L38>>, <<L40>>}
FilterArguments ==
    (CategoryLists \X SizeLists \X {"shoes"})
        \cup (CategoryLists \X OtherTypeSizeLists \X {"clothing"})
\* maps whose parent links form a forest under the two shoe roots
DeepMenTree == (101 :> 0) @@ (102 :> 0) @@ (103 :> 101) @@ (154 :> 103)
ForestMaps == {DefaultTree, DeepMenTree}

(***************************************************************************)
(* PriceCalculator.  A number is a fraction [num, den] with den > 0, so    *)
(* that b = 1.2 is 12/10 and a price of 123.4 CNY is 1234/10; the prices   *)
(* calculate_price returns are in hundredths (1920.0 is 192000).  A        *)
(* formula string is held as the sequence of its tokens.                   *)
(***************************************************************************)
Frac(num, den) == [num |-> num, den |-> den]
Whole(n) == Frac(n, 1)
FracAdd(p, q) == Frac(p.num * q.den + q.num * p.den, p.den * q.den)
FracSub(p, q) == Frac(p.num * q.den - q.num * p.den, p.den * q.den)
FracMul(p, q) == Frac(p.num * q.num, p.den * q.den)
FracDiv(p, q) == IF q.num > 0 THEN Frac(p.num * q.den, p.den * q.num)
                 ELSE Frac((0 - p.num) * q.den, p.den * (0 - q.num))
\* round(value, 2), in hundredths; no value of the model lies on a tie
Round2(p) == (200 * p.num + p.den) \div (2 * p.den)

Num(n) == [t |-> "num", s |-> "", n |-> n]
Name(s) == [t |-> "name", s |-> s, n |-> 0]
Sym(s) == [t |-> "sym", s |-> s, n |-> 0]
IsSym(toks, s) == toks # <<>> /\ Head(toks).t = "sym" /\ Head(toks).s = s

\* the parse of a formula: [ok, tree, rest]; a tree node is
\* [k, n, s, l, r] with k in "num", "name", "neg", "bin"
NoTree == [k |-> "none", n |-> 0, s |-> "", l |-> <<>>, r |-> <<>>]
Node(k, n, s, l, r) == [k |-> k, n |-> n, s |-> s, l |-> l, r |-> r]
Parsed(tree, rest) == [ok |-> TRUE, tree |-> tree, rest |-> rest]
SyntaxError == [ok |-> FALSE, tree |-> NoTree, rest |-> <<>>]

RECURSIVE ParseExpr(_)
RECURSIVE ParseTerm(_)
RECURSIVE ParseFactor(_)
RECURSIVE ExprRest(_)
RECURSIVE TermRest(_)
\* "(" expr ")" once expr is parsed
Closed(inner) ==
    IF inner.ok /\ IsSym(inner.rest, ")") THEN Parsed(inner.tree, Tail(inner.rest))
    ELSE SyntaxError
Negated(operand) ==
    IF operand.ok THEN Parsed(Node("neg", 0, "", operand.tree, NoTree), operand.rest)
    ELSE SyntaxError
ParseFactor(toks) ==
    IF toks = <<>> THEN SyntaxError
    ELSE IF Head(toks).t = "num"
         THEN Parsed(Node("num", Head(toks).n, "", NoTree, NoTree), Tail(toks))
    ELSE IF Head(toks).t = "name"
         THEN Parsed(Node("name", 0, Head(toks).s, NoTree, NoTree), Tail(toks))
    ELSE IF IsSym(toks, "(") THEN Closed(ParseExpr(Tail(toks)))
    ELSE IF IsSym(toks, "-") THEN Negated(ParseFactor(Tail(toks)))
    ELSE SyntaxError
\* left operand parsed, operator at the head of its rest, right operand parsed
Joined(left, right) ==
    IF right.ok
    THEN Parsed(Node("bin", 0, Head(left.rest).s, left.tree, right.tree), right.rest)
    ELSE SyntaxError
TermRest(left) ==
    IF ~left.ok THEN left
    ELSE IF IsSym(left.rest, "*") \/ IsSym(left.rest, "/")
         THEN TermRest(Joined(left, ParseFactor(Tail(left.rest))))
    ELSE left
ParseTerm(toks) == TermRest(ParseFactor(toks))
ExprRest(left) ==
    IF ~left.ok THEN left
    ELSE IF IsSym(left.rest, "+") \/ IsSym(left.rest, "-")
         THEN ExprRest(Joined(left, ParseTerm(Tail(left.rest))))
    ELSE left
ParseExpr(toks) == ExprRest(ParseTerm(toks))

\* the value of an evaluation: a number, or the exception it raised
Value(v) == [error |-> "", v |-> v]
Failed(error) == [error |-> error, v |-> Whole(0)]
\* None among the values a name is bound to: no arithmetic accepts it
NoneValue == [num |-> 0, den |-> 0]
\* the names eval() finds bound: eval(formula_str) is given no namespace, so it
\* reads the locals of calculate_price (line 105)
Lookup(env, name) ==
    IF name \notin DOMAIN env THEN Failed("NameError")
    ELSE IF env[name] = NoneValue THEN Failed("TypeError")
    ELSE Value(env[name])
Apply(op, left, right) ==
    IF left.error # "" THEN left
    ELSE IF right.error # "" THEN right
    ELSE IF op = "+" THEN Value(FracAdd(left.v, right.v))
    ELSE IF op = "-" THEN Value(FracSub(left.v, right.v))
    ELSE IF op = "*" THEN Value(FracMul(left.v, right.v))
    ELSE IF right.v.num = 0 THEN Failed("ZeroDivisionError")
    ELSE Value(FracDiv(left.v, right.v))
Minus(operand) ==
    IF operand.error # "" THEN operand ELSE Value(FracSub(Whole(0), operand.v))
RECURSIVE EvalTree(_, _)
EvalTree(tree, env) ==
    IF tree.k = "num" THEN Value(Whole(tree.n))
    ELSE IF tree.k = "name" THEN Lookup(env, tree.s)
    ELSE IF tree.k = "neg" THEN Minus(EvalTree(tree.l, env))
    ELSE Apply(tree.s, EvalTree(tree.l, env), EvalTree(tree.r, env))
\* eval(formula_str): the whole string must parse before anything is evaluated
EvalParsed(parse, env) ==
    IF parse.ok /\ parse.rest = <<>> THEN EvalTree(parse.tree, env)
    ELSE Failed("SyntaxError")
Eval(formula, env) == EvalParsed(ParseExpr(formula), env)

\* "(x * a + 400) * b", the literal of get_formula and _set_defaults
StandardFormula ==
    <<Sym("("), Name("x"), Sym("*"), Name("a"), Sym("+"), Num(400), Sym(")"),
      Sym("*"), Name("b")>>
\* the tiers of DELIVERY_OPTIONS: "21-26 days" and "10-14 days" (in Russian)
SlowTier == "21-26"
FastTier == "10-14"
DefaultA == 12
DefaultBTenths == 12
DefaultC == 6
FallbackTenths == 25
DefaultParameters == ("a" :> Whole(DefaultA)) @@ ("b" :> Frac(DefaultBTenths, 10))
                     @@ ("c" :> Whole(DefaultC))
\* self.parameters.get(name, default)
Parameter(config, name) ==
    IF name \in DOMAIN config.parameters THEN config.parameters[name]
    ELSE DefaultParameters[name]

\* get_formula ignoring the category table
get_formula_default_only(config, category_id, delivery_days) ==
    IF delivery_days \in DOMAIN config.default_formula
    THEN config.default_formula[delivery_days]
    ELSE StandardFormula
get_formula(config, category_id, delivery_days) ==
    IF /\ category_id \in DOMAIN config.formulas
       /\ delivery_days \in DOMAIN config.formulas[category_id]
    THEN config.formulas[category_id][delivery_days]
    ELSE IF delivery_days \in DOMAIN config.default_formula
         THEN config.default_formula[delivery_days]
    ELSE StandardFormula

\* the namespace with x and the parameters alone, as a formula language of
\* bound variables would have it
EnvBoundOnly(config, x, category_id) ==
    ("x" :> x) @@ ("a" :> Parameter(config, "a")) @@ ("b" :> Parameter(config, "b"))
    @@ ("c" :> Parameter(config, "c"))
\* the numeric locals of calculate_price at line 105: x, a, b, c and the
\* arguments price_cny and category_id (None when the caller has no category)
Env(config, x, category_id) ==
    ("x" :> x) @@ ("a" :> Parameter(config, "a")) @@ ("b" :> Parameter(config, "b"))
    @@ ("c" :> Parameter(config, "c")) @@ ("price_cny" :> x)
    @@ ("category_id" :> IF category_id = 0 THEN NoneValue ELSE Whole(category_id))
\* the except branch re-raising in place of the fallback
PriceOfReraise(evaluated, x) ==
    IF evaluated.error = "" THEN [raised |-> "", price |-> Round2(evaluated.v)]
    ELSE [raised |-> evaluated.error, price |-> 0]
\* lines 103-116: round(price_rub, 2), or the fallback under "except Exception"
PriceOf(evaluated, x) ==
    IF evaluated.error = "" THEN [raised |-> "", price |-> Round2(evaluated.v)]
    ELSE [raised |-> "", price |-> Round2(FracMul(x, Frac(FallbackTenths, 10)))]
calculate_price(config, price_cny, category_id, delivery_days) ==
    PriceOf(Eval(get_formula(config, category_id, delivery_days),
                 Env(config, price_cny, category_id)),
            price_cny)
\* DELIVERY_OPTIONS, the class attribute
DELIVERY_OPTIONS == <<SlowTier, FastTier>>
\* lines 129-134: prices[delivery_days] = self.calculate_price(...) for each option
calculate_prices_for_variant(config, price_cny, category_id) ==
    [delivery_days \in {DELIVERY_OPTIONS[k] : k \in 1..Len(DELIVERY_OPTIONS)} |->
        calculate_price(config, price_cny, category_id, delivery_days).price]

(***************************************************************************)
(* The pricing configurations and arguments of the model.                  *)
(***************************************************************************)
NoMap == <<>>
\* _set_defaults
DefaultConfig ==
    [parameters |-> DefaultParameters,
     default_formula |-> (SlowTier :> StandardFormula)
                         @@ (FastTier :> StandardFormula \o <<Sym("+"), Num(600)>>),
     formulas |-> NoMap]
FormulaChoices ==
    { <<Name("x"), Sym("*"), Name("c")>>,                       \* x * c
      <<Name("x"), Sym("/"), Num(3), Sym("-"), Num(1)>>,        \* x / 3 - 1
      <<Sym("("), Name("x"), Sym("*"), Name("a")>>,             \* (x * a
      <<Name("x"), Sym("/"), Sym("("), Name("a"), Sym("-"), Num(12), Sym(")")>>,
      <<Name("x"), Sym("*"), Name("d")>>,                       \* x * d
      <<Name("x"), Sym("+"), Name("category_id")>>,             \* x + category_id
      <<>> }
ParameterChoices == {DefaultParameters, NoMap, ("a" :> Whole(10))}
PricedCategories == {103, 154}
\* a configuration file that names a third tier, "7-10 days"
ExtraTierConfig ==
    [DefaultConfig EXCEPT !.default_formula = @ @@ ("7-10" :> <<Name("x"), Sym("*"), Name("c")>>)]
Configs ==
    {DefaultConfig, ExtraTierConfig}
    \cup { [parameters |-> ps, default_formula |-> (SlowTier :> f), formulas |-> NoMap] :
             ps \in ParameterChoices, f \in FormulaChoices }
    \cup { [DefaultConfig EXCEPT !.formulas = (103 :> (SlowTier :> f)), !.parameters = ps] :
             ps \in ParameterChoices, f \in FormulaChoices }
\* 100, 123.4 and 0.5 CNY
PriceChoices == {Whole(100), Frac(1234, 10), Frac(5, 10)}
TierNames == {SlowTier, FastTier, "7-10"}

(***************************************************************************)
(* Database: the products table, each row with its product_variants rows.  *)
(* None is 0 (reference_sku_id, category_id, sku_id).  price_cny and       *)
(* price_rub are in hundredths.  The columns the operations copy from      *)
(* product_data without reading them again (title, brand, images, ...)     *)
(* are left out.                                                           *)
(***************************************************************************)
Row(spu_id, sku_id, category_id, ids, data_loaded, variants) ==
    [spu_id |-> spu_id, reference_sku_id |-> sku_id, category_id |-> category_id,
     category_ids |-> ids, data_loaded |-> data_loaded, variants |-> variants]
\* an entry of product_data['variants'], as parse_product_detail builds it
VariantData(sku_id, size_eu, size_type, price_cny, price_rub) ==
    [sku_id |-> sku_id, size_eu |-> size_eu, size_type |-> size_type,
     price_cny |-> price_cny, price_rub |-> price_rub]
\* ProductVariant(sku_id=..., size_eu=..., ..., is_available=variant_data.get(.., True))
VariantRow(v) ==
    [sku_id |-> v.sku_id, size_eu |-> v.size_eu, size_type |-> v.size_type,
     price_cny |-> v.price_cny, price_rub |-> v.price_rub, is_available |-> TRUE]
VariantRows(variants) == [k \in 1..Len(variants) |-> VariantRow(variants[k])]
SizeTypeValues == {"shoes", "clothing", "accessories"}
\* SizeType(variant_data['size_type']) raises ValueError
RaisesValueError(variants) ==
    \E k \in 1..Len(variants) : variants[k].size_type \notin SizeTypeValues
DataSizes(variants) == [k \in 1..Len(variants) |-> variants[k].size_eu]
\* the category filter of add_product and load_product_data
FilteredIds(flat, ids, variants) ==
    IF ids # <<>> /\ variants # <<>> /\ variants[1].size_type = "shoes"
    THEN filter_categories(flat, ids, DataSizes(variants), "shoes")
    ELSE Returned(ids)
\* filtered_category_ids[0] if filtered_category_ids else product_data.get('category_id')
FirstOr(ids, category_id) == IF ids # <<>> THEN ids[1] ELSE category_id
\* filter_by(spu_id=spu_id, reference_sku_id=sku_id); first() takes one of them
Matching(rows, spu_id, sku_id) ==
    {i \in 1..Len(rows) : rows[i].spu_id = spu_id /\ rows[i].reference_sku_id = sku_id}
\* the unique index idx_spu_sku; NULL SKUs do not collide
Collides(rows, spu_id, sku_id) == sku_id # 0 /\ Matching(rows, spu_id, sku_id) # {}
Rejected(flat, ids, variants) ==
    FilteredIds(flat, ids, variants).raised # "" \/ RaisesValueError(variants)

Added(spu_id, data, sku_id, filtered) ==
    Row(spu_id, sku_id, FirstOr(filtered, data.category_id), filtered, TRUE,
        VariantRows(data.variants))
\* load_product_data without the "if product.data_loaded" return
AlreadyLoadedNever(row) == FALSE
AlreadyLoaded(row) == row.data_loaded
Loaded(row, data, filtered) ==
    [row EXCEPT !.category_id = FirstOr(filtered, data.category_id),
                !.category_ids = filtered,
                !.data_loaded = TRUE,
                !.variants = VariantRows(data.variants)]
\* setattr for every key but variants, spu_id, reference_sku_id, category_ids
Updated(row, data) ==
    [row EXCEPT !.category_id = data.category_id,
                !.variants = IF data.has_variants THEN VariantRows(data.variants) ELSE @]

\* the first price above 0 of sku_data['prices'], 0 when there is none
PriceRaw(prices) ==
    IF {k \in 1..Len(prices) : prices[k] > 0} = {} THEN 0
    ELSE prices[Least({k \in 1..Len(prices) : prices[k] > 0})]
\* current_variants holds, for each sku_id, the last variant that carries it
IsCurrent(variants, k) ==
    /\ variants[k].sku_id # 0
    /\ \A j \in (k + 1)..Len(variants) : variants[j].sku_id # variants[k].sku_id
HasPrice(price_skus, sku_id) ==
    sku_id \in DOMAIN price_skus /\ PriceRaw(price_skus[sku_id]) > 0
\* price_calculator is the module's instance; without price_formulas.json it
\* holds the defaults
\* price_calculator.calculate_price(price_cny, primary_category_id, "21-26 days"),
\* tabulated over the raw prices (fen) and primary categories a refresh meets
RefreshPrices == {10000}
PrimaryCategories == {0, 103, 154}
StorePrices ==
    [price_raw \in RefreshPrices, primary_category \in PrimaryCategories |->
        calculate_price(DefaultConfig, Frac(price_raw, FenPerYuan),
                        primary_category, SlowTier).price]
Repriced(v, price_raw, primary_category) ==
    [v EXCEPT !.price_cny = price_raw,
              !.price_rub = StorePrices[price_raw, primary_category],
              !.is_available = TRUE]
\* the deletion loop extended to the SKUs that came without a price
IsRemovedOrUnpriced(variants, k, price_skus) ==
    IsCurrent(variants, k) /\ ~HasPrice(price_skus, variants[k].sku_id)
\* session.delete(variant) for sku_id_str not in new_sku_ids
IsRemoved(variants, k, price_skus) ==
    IsCurrent(variants, k) /\ variants[k].sku_id \notin DOMAIN price_skus
IsUpdated(variants, k, price_skus) ==
    IsCurrent(variants, k) /\ HasPrice(price_skus, variants[k].sku_id)
RECURSIVE PricedVariants(_, _, _, _)
PricedVariants(variants, k, price_skus, primary_category) ==
    IF k > Len(variants) THEN <<>>
    ELSE (IF IsRemoved(variants, k, price_skus) THEN <<>>
          ELSE IF IsUpdated(variants, k, price_skus)
               THEN <<Repriced(variants[k], PriceRaw(price_skus[variants[k].sku_id]),
                               primary_category)>>
          ELSE <<variants[k]>>)
         \o PricedVariants(variants, k + 1, price_skus, primary_category)
\* the early returns before the update loop
NothingToPrice(row, price_skus) ==
    \/ DOMAIN price_skus = {}
    \/ row.variants # <<>> /\ \A k \in 1..Len(row.variants) : row.variants[k].sku_id = 0
PricedRow(row, price_skus) ==
    IF NothingToPrice(row, price_skus) THEN row
    ELSE [row EXCEPT !.variants = PricedVariants(@, 1, price_skus,
                                                 FirstOr(row.category_ids, 0))]

(***************************************************************************)
(* The arguments the model gives the Database operations.                  *)
(***************************************************************************)
SpuIds == {7}
StoreSkuIds == {0, 11}
StoreCategoryLists == {<<>>, <<103, 154>>}
ProductData(category_id, has_variants, variants) ==
    [category_id |-> category_id, has_variants |-> has_variants, variants |-> variants]
DataChoices ==
    { ProductData(0, TRUE, <<VariantData(11, L40, "shoes", 5000, 1000000),
                             VariantData(12, L42, "shoes", 5000, 1000000)>>),
      ProductData(9, TRUE, <<VariantData(11, L38, "shoes", 5000, 1000000)>>),
      ProductData(0, TRUE, <<VariantData(0, LM, "clothing", 5000, 1000000)>>),
      ProductData(0, TRUE, <<VariantData(11, L40, "sneakers", 5000, 1000000)>>),
      ProductData(0, TRUE, <<>>),
      ProductData(0, FALSE, <<>>) }
\* price_info['skus']: sku id -> the prices of its 'prices' list, in fen
PriceSkusChoices ==
    { NoMap, (11 :> <<0, 10000>>), (12 :> <<10000>>), (11 :> <<>>),
      (11 :> <<10000>>) @@ (12 :> <<0>>) }

(***************************************************************************)
(* RateLimiter.  Time is in whole seconds; the coroutines of one event     *)
(* loop run one at a time and give way only at an await: the lock when it  *)
(* is taken, asyncio.sleep.  A sleep ends once its delay has passed, at    *)
(* that instant or later.                                                  *)
(***************************************************************************)
\* min_interval = 1.0 / requests_per_second, with the default 0.5 per second
MinInterval == 2
NoTime == 0 - 1
Tasks == 1..MaxTasks
\* wait_time arguments of handle_rate_limit_error
WaitTimes == {1, 3}
\* __init__
NewLimiter ==
    [now |-> 0, last_request_time |-> NoTime, total_requests |-> 0,
     rate_limit_errors |-> 0, holder |-> 0, waiters |-> <<>>, grants |-> <<>>]
IdleTask == [pc |-> "idle", wake |-> 0]
\* a lock that never makes a caller wait
LockFreeAlways(l) == TRUE
\* asyncio.Lock.acquire returns at once when the lock is not held and no
\* coroutine is queued for it
LockFree(l) == l.holder = 0 /\ l.waiters = <<>>
\* lines 44-46: wait_time, 0 when there was no request before
WaitTime(l) ==
    IF l.last_request_time = NoTime THEN 0
    ELSE MinInterval - (l.now - l.last_request_time)
\* lines 53-54 and the release of the lock: the call is granted now
Granted(l) ==
    [l EXCEPT !.last_request_time = l.now, !.total_requests = @ + 1,
              !.grants = Append(@, l.now), !.holder = 0]
\* lines 42-54 with the lock taken, up to the sleep or the end of the call
Locked(l, tasks, t) ==
    IF WaitTime(l) > 0
    THEN /\ limiter' = [l EXCEPT !.holder = t]
         /\ limiter_tasks' = [tasks EXCEPT ![t] = [pc |-> "sleeping",
                                                   wake |-> l.now + WaitTime(l)]]
    ELSE /\ limiter' = Granted(l)
         /\ limiter_tasks' = [tasks EXCEPT ![t] = IdleTask]

(***************************************************************************)
(* PoizonScraper: get_product_detail, get_product_detail_with_price and    *)
(* get_price_info.  The three methods differ in the URL and in the text of *)
(* their log lines only, so one set of definitions stands for all three.   *)
(* A coroutine gives way at the request (async with session.get) and at    *)
(* asyncio.sleep; what lies between two awaits is one step.                *)
(***************************************************************************)
Fetchers == {"first", "second"}
\* what a request comes to: a status with the body it carries, or an
\* exception raised by session.get ("error"), by response.json() on a 200
\* ("200 invalid") or by response.text() on a 429 ("429 broken")
Responses == {"200 dict", "200 list", "200 invalid", "404", "429", "429 broken",
              "500", "error"}
\* the max_retries arguments; 3 is the default
RetryLimits == 0..MaxRetries
\* __init__, lines 25-26
NewScraper == [api_requests |-> 0, successful_requests |-> 0]
NoFetch == [max_retries |-> 0, attempt |-> 0, pc |-> "idle",
            requests |-> 0, last |-> "", wait_time |-> 0, result |-> ""]
\* the except clause is entered
RaisesException(response) == response \in {"error", "200 invalid", "429 broken"}
\* a retry loop that never gives up
LastAttemptNever(call) == FALSE
\* the negation of attempt < max_retries - 1
LastAttempt(call) == ~(call.attempt < call.max_retries - 1)
\* self.api_requests += 1 and the request that follows it
RequestMade(call) == [call EXCEPT !.pc = "awaiting", !.requests = @ + 1]
\* the call returns
Ended(call, response, value) ==
    [call EXCEPT !.pc = "done", !.last = response, !.result = value]
\* the call sleeps before the next attempt
Waiting(call, response, seconds) ==
    [call EXCEPT !.pc = "sleeping", !.last = response, !.wait_time = seconds]
\* the body of the loop from the response on
Answered(call, response) ==
    IF RaisesException(response)
    THEN IF ~LastAttempt(call) THEN Waiting(call, response, 2)
         ELSE Ended(call, response, "None")
    ELSE IF response = "200 dict" THEN Ended(call, response, "data")
    ELSE IF response = "200 list" THEN Ended(call, response, "None")
    ELSE IF response = "404" THEN Ended(call, response, "None")
    ELSE IF response = "429"
         THEN IF ~LastAttempt(call)
              THEN Waiting(call, response, 5 + (call.attempt * 5))
              ELSE Ended(call, response, "None")
    ELSE Ended(call, response, "None")

(***************************************************************************)
(* ExecutionController and pausable_loop.  The thread of monitor_input and *)
(* the coroutine of pausable_loop share the fields of the controller and   *)
(* take no lock: they interleave between any two accesses of a field, so   *)
(* every read and every write of paused and restart_requested is a step of *)
(* its own.  A position of the loop is named by the line it is about to    *)
(* execute.  An item stands for its index, and so does its result.         *)
(***************************************************************************)
\* __init__ and start_monitoring, lines 27-29 and 196-198
NewController == [paused |-> FALSE, restart_requested |-> FALSE,
                  stop_monitoring |-> FALSE]
\* the thread waits for a line; restart_while_paused records that a restart
\* command came while paused was set and check_pause had not returned
NoInput == [pc |-> "select", commands |-> 0, restart_while_paused |-> FALSE]
\* processed and restarts record what the loop did: the indices given to
\* process_func since the last restart, and the restarts
NoLoop == [pc |-> "idle", len_items |-> 0, start_index |-> 0, i |-> 0,
           results |-> <<>>, success_count |-> 0, failed_count |-> 0,
           processed |-> <<>>, restarts |-> 0]
\* what process_func does with an item: a result, a falsy result, an exception
Outcomes == {"result", "falsy", "raises"}
\* the positions inside check_pause
CheckPausePositions == {"165", "168", "171", "182", "182 and", "185", "188"}
\* line 272, while i < len(items): on to check_pause or to the return
LoopTest(frame) ==
    [frame EXCEPT !.pc = IF frame.i < frame.len_items THEN "165" ELSE "returned"]
\* a restart that leaves the counts and the results as they are
RestartKeeping(frame) ==
    LoopTest([frame EXCEPT !.i = 0, !.processed = <<>>, !.restarts = @ + 1])
\* lines 280-286: check_pause returned False
Restart(frame) ==
    LoopTest([frame EXCEPT !.i = 0, !.results = <<>>, !.success_count = 0,
                           !.failed_count = 0, !.processed = <<>>,
                           !.restarts = @ + 1])
\* lines 289-300: check_pause returned True and the item is processed
Processed(frame, outcome) ==
    LoopTest([frame EXCEPT
                 !.i = @ + 1,
                 !.processed = Append(@, frame.i),
                 !.success_count = IF outcome = "result" THEN @ + 1 ELSE @,
                 !.results = IF outcome = "result" THEN Append(@, frame.i) ELSE @,
                 !.failed_count = IF outcome = "result" THEN @ ELSE @ + 1])

(***************************************************************************)
(* The titles given to clean_title: every string of up to MaxTitleLen      *)
(* characters of TitleAlphabet, and the example of the docstring.          *)
(***************************************************************************)
TitleAlphabet == {"A", "z", "1", " ", "\t", "U+3000", "U+2764", "U+70ED", "-"}
\* "Nike Air Jordan 1 " followed by the heart emoji and the bracketed "hot sale"
ExampleTitle ==
    <<"N", "i", "k", "e", " ", "A", "i", "r", " ", "J", "o", "r", "d", "a", "n", " ", "1",
      " ", "U+2764", "U+FE0F", "U+3010", "U+70ED", "U+9500", "U+3011">>
ExampleCleaned ==
    <<"N", "i", "k", "e", " ", "A", "i", "r", " ", "J", "o", "r", "d", "a", "n", " ", "1">>
Titles == SeqsUpTo(TitleAlphabet, MaxTitleLen) \cup {ExampleTitle}
\* at most this many clean_title calls are made on a title
MaxCleanings == 2

(***************************************************************************)
(* The state machine.                                                      *)
(***************************************************************************)
NoTitleCall == [title |-> <<>>, calls |-> 0, cleaned |-> <<>>, previous |-> <<>>]
LimiterIdle ==
    /\ limiter = NewLimiter
    /\ limiter_tasks = [t \in Tasks |-> IdleTask]
ScraperIdle ==
    /\ scraper = NewScraper
    /\ fetches = [f \in Fetchers |-> NoFetch]
ControlIdle ==
    /\ controller = NewController
    /\ input_thread = NoInput
    /\ pausable = NoLoop
SideIdle == title_call = NoTitleCall /\ LimiterIdle /\ ScraperIdle /\ ControlIdle
EmptyStore == products = <<>>
NoPriceCall == [op |-> "calculate_price", config |-> DefaultConfig,
                price_cny |-> Whole(0), category_id |-> 0,
                delivery_days |-> "", done |-> FALSE,
                outcome |-> [raised |-> "", price |-> 0], prices |-> NoMap]
NoFilterCall == [op |-> "none", category_ids |-> <<>>, sizes |-> <<>>,
                 size_type |-> "", done |-> FALSE,
                 analysis |-> [has_women_sizes |-> FALSE, has_men_sizes |-> FALSE],
                 outcome |-> Returned(<<>>)]
NoChildCall == [category_id |-> 0, parent_id |-> 0, outcome |-> "none"]

InitProcessor ==
    /\ processed_count = 0
    /\ valid_count = 0
    /\ invalid_reasons = NoLog
    /\ result = NoneResult
    /\ prev_result = NoneResult
    /\ repeat_calls = 0

Arguments(inputs) ==
    \E inp \in inputs :
        /\ product_data = inp.doc
        /\ reference_sku_id = inp.ref
        /\ category_ids = inp.cats

Init ==
    /\ InitProcessor
    /\ \/ Arguments(HeaderInputs)
       \/ Arguments(BodyInputs)
       \/ Arguments(PriceInputs)
       \/ Arguments(ReferenceInputs)
    /\ categories_flat = DefaultTree
    /\ child_call = NoChildCall
    /\ filter_call = NoFilterCall
    /\ price_call = NoPriceCall
    /\ EmptyStore
    /\ SideIdle

Self == [processed_count |-> processed_count, valid_count |-> valid_count,
         invalid_reasons |-> invalid_reasons]

\* processor.parse_product_detail(product_data, reference_sku_id, category_ids)
Returns(out) ==
    /\ processed_count' = processed_count + 1
    /\ valid_count' = IF out.valid THEN valid_count + 1 ELSE valid_count
    /\ invalid_reasons' = AddLog(invalid_reasons, out.logged)
    /\ result' = out.ret

Parse ==
    /\ processed_count < MaxCalls
    /\ Returns(ParseProductDetail(Self, product_data, reference_sku_id, category_ids))
    /\ prev_result' = result
    /\ repeat_calls' = repeat_calls + 1
    /\ UNCHANGED <<product_data, reference_sku_id, category_ids>>
    /\ UNCHANGED <<categories_flat, child_call, filter_call, price_call, products, side_vars>>

\* the caller moves on to another product
NextDocument ==
    /\ repeat_calls >= 1
    /\ processed_count < MaxCalls
    /\ \E inp \in FollowUps :
          /\ product_data' = inp.doc
          /\ reference_sku_id' = inp.ref
          /\ category_ids' = inp.cats
    /\ result' = NoneResult
    /\ prev_result' = NoneResult
    /\ repeat_calls' = 0
    /\ UNCHANGED <<processed_count, valid_count, invalid_reasons>>
    /\ UNCHANGED <<categories_flat, child_call, filter_call, price_call, products, side_vars>>

Next == Parse \/ NextDocument

Spec == Init /\ [][Next]_vars

\* category_filter.is_child_of(category_id, parent_id)
IsChildOfCall ==
    /\ \E c \in CategoryIds \cup UnknownCategories, p \in CategoryIds \cup UnknownCategories :
          child_call' = [category_id |-> c, parent_id |-> p,
                         outcome |-> is_child_of(categories_flat, c, p)]
    /\ UNCHANGED <<processed_count, valid_count, invalid_reasons, product_data,
                   reference_sku_id, category_ids, result, prev_result, repeat_calls,
                   categories_flat>>
    /\ UNCHANGED <<filter_call, price_call, products, side_vars>>

\* no product is being parsed
IdleProcessor ==
    /\ InitProcessor
    /\ product_data = BaseDoc
    /\ reference_sku_id = 0
    /\ category_ids = <<>>

InitCategories ==
    /\ IdleProcessor
    /\ categories_flat \in CategoryMaps
    /\ child_call = NoChildCall
    /\ filter_call = NoFilterCall
    /\ price_call = NoPriceCall
    /\ EmptyStore
    /\ SideIdle

NextCategories == IsChildOfCall

SpecCategories == InitCategories /\ [][NextCategories]_vars

\* category_filter.analyze_sizes(sizes)
AnalyzeSizesCall ==
    /\ filter_call.op = "analyze_sizes"
    /\ ~filter_call.done
    /\ filter_call' = [filter_call EXCEPT !.done = TRUE,
                                          !.analysis = analyze_sizes(filter_call.sizes)]
    /\ UNCHANGED <<processed_count, valid_count, invalid_reasons, product_data,
                   reference_sku_id, category_ids, result, prev_result, repeat_calls>>
    /\ UNCHANGED <<categories_flat, child_call, price_call, products, side_vars>>

\* category_filter.filter_categories(category_ids, sizes, size_type)
FilterCategoriesCall ==
    /\ filter_call.op = "filter_categories"
    /\ ~filter_call.done
    /\ filter_call' = [filter_call EXCEPT
                          !.done = TRUE,
                          !.outcome = filter_categories(categories_flat,
                                          filter_call.category_ids, filter_call.sizes,
                                          filter_call.size_type)]
    /\ UNCHANGED <<processed_count, valid_count, invalid_reasons, product_data,
                   reference_sku_id, category_ids, result, prev_result, repeat_calls>>
    /\ UNCHANGED <<categories_flat, child_call, price_call, products, side_vars>>

InitFilter ==
    /\ IdleProcessor
    /\ categories_flat \in ForestMaps
    /\ child_call = NoChildCall
    /\ \/ \E sizes \in SizeLists :
             filter_call = [NoFilterCall EXCEPT !.op = "analyze_sizes", !.sizes = sizes]
       \/ \E args \in FilterArguments :
             filter_call = [NoFilterCall EXCEPT !.op = "filter_categories",
                                               !.category_ids = args[1],
                                               !.sizes = args[2],
                                               !.size_type = args[3]]
    /\ price_call = NoPriceCall
    /\ EmptyStore
    /\ SideIdle

NextFilter == AnalyzeSizesCall \/ FilterCategoriesCall

SpecFilter == InitFilter /\ [][NextFilter]_vars

\* price_calculator.calculate_price(price_cny, category_id, delivery_days)
CalculatePrice ==
    /\ price_call.op = "calculate_price"
    /\ ~price_call.done
    /\ price_call' = [price_call EXCEPT
                         !.done = TRUE,
                         !.outcome = calculate_price(price_call.config, price_call.price_cny,
                                         price_call.category_id, price_call.delivery_days)]
    /\ UNCHANGED <<processed_count, valid_count, invalid_reasons, product_data,
                   reference_sku_id, category_ids, result, prev_result, repeat_calls>>
    /\ UNCHANGED <<categories_flat, child_call, filter_call, products, side_vars>>

\* price_calculator.calculate_prices_for_variant(price_cny, category_id)
CalculatePricesForVariant ==
    /\ price_call.op = "calculate_prices_for_variant"
    /\ ~price_call.done
    /\ price_call' = [price_call EXCEPT
                         !.done = TRUE,
                         !.prices = calculate_prices_for_variant(price_call.config,
                                        price_call.price_cny, price_call.category_id)]
    /\ UNCHANGED <<processed_count, valid_count, invalid_reasons, product_data,
                   reference_sku_id, category_ids, result, prev_result, repeat_calls>>
    /\ UNCHANGED <<categories_flat, child_call, filter_call, products, side_vars>>

InitPrice ==
    /\ IdleProcessor
    /\ categories_flat = DefaultTree
    /\ child_call = NoChildCall
    /\ filter_call = NoFilterCall
    /\ \E config \in Configs, x \in PriceChoices, c \in PricedCategories \cup {0} :
          \/ \E t \in TierNames :
                price_call = [NoPriceCall EXCEPT !.config = config, !.price_cny = x,
                                                !.category_id = c, !.delivery_days = t]
          \/ price_call = [NoPriceCall EXCEPT !.op = "calculate_prices_for_variant",
                                              !.config = config, !.price_cny = x,
                                              !.category_id = c]
    /\ EmptyStore
    /\ SideIdle

NextPrice == CalculatePrice \/ CalculatePricesForVariant

SpecPrice == InitPrice /\ [][NextPrice]_vars

\* processor.clean_title(title), on the title or on what the call before returned
CleanTitle ==
    /\ title_call.calls < MaxCleanings
    /\ title_call' = [title_call EXCEPT
                         !.calls = @ + 1,
                         !.previous = title_call.cleaned,
                         !.cleaned = clean_title(IF title_call.calls = 0
                                                 THEN title_call.title
                                                 ELSE title_call.cleaned)]
    /\ UNCHANGED <<core_vars, limiter_vars, scraper_vars, control_vars>>

CoreIdle ==
    /\ IdleProcessor
    /\ categories_flat = DefaultTree
    /\ child_call = NoChildCall
    /\ filter_call = NoFilterCall
    /\ price_call = NoPriceCall
    /\ EmptyStore

InitTitle ==
    /\ CoreIdle
    /\ \E title \in Titles : title_call = [NoTitleCall EXCEPT !.title = title]
    /\ LimiterIdle
    /\ ScraperIdle
    /\ ControlIdle

NextTitle == CleanTitle

SpecTitle == InitTitle /\ [][NextTitle]_vars

\* a second passes
Tick ==
    /\ limiter.now < MaxTime
    /\ limiter' = [limiter EXCEPT !.now = @ + 1]
    /\ UNCHANGED <<core_vars, title_call, limiter_tasks, scraper_vars, control_vars>>

\* await rate_limiter.acquire(), up to its first await
Acquire(t) ==
    /\ limiter_tasks[t].pc = "idle"
    /\ IF LockFree(limiter) THEN Locked(limiter, limiter_tasks, t)
       ELSE /\ limiter' = [limiter EXCEPT !.waiters = Append(@, t)]
            /\ limiter_tasks' = [limiter_tasks EXCEPT ![t].pc = "waiting"]
    /\ UNCHANGED <<core_vars, title_call, scraper_vars, control_vars>>

\* the lock was released and the first coroutine queued for it goes on
LockAcquired(t) ==
    /\ limiter_tasks[t].pc = "waiting"
    /\ limiter.holder = 0
    /\ Head(limiter.waiters) = t
    /\ Locked([limiter EXCEPT !.waiters = Tail(@)], limiter_tasks, t)
    /\ UNCHANGED <<core_vars, title_call, scraper_vars, control_vars>>

\* asyncio.sleep(wait_time) of acquire is over: lines 51-54
AcquireAwake(t) ==
    /\ limiter_tasks[t].pc = "sleeping"
    /\ limiter.now >= limiter_tasks[t].wake
    /\ limiter' = Granted(limiter)
    /\ limiter_tasks' = [limiter_tasks EXCEPT ![t] = IdleTask]
    /\ UNCHANGED <<core_vars, title_call, scraper_vars, control_vars>>

\* await rate_limiter.handle_rate_limit_error(wait_time), up to its sleep
HandleRateLimitError(t, wait_time) ==
    /\ limiter_tasks[t].pc = "idle"
    /\ limiter.rate_limit_errors < MaxErrors
    /\ limiter' = [limiter EXCEPT !.rate_limit_errors = @ + 1]
    /\ limiter_tasks' = [limiter_tasks EXCEPT ![t] = [pc |-> "backoff",
                                                      wake |-> limiter.now + wait_time]]
    /\ UNCHANGED <<core_vars, title_call, scraper_vars, control_vars>>

\* the sleep of handle_rate_limit_error is over: line 73
BackoffOver(t) ==
    /\ limiter_tasks[t].pc = "backoff"
    /\ limiter.now >= limiter_tasks[t].wake
    /\ limiter' = [limiter EXCEPT !.last_request_time = limiter.now]
    /\ limiter_tasks' = [limiter_tasks EXCEPT ![t] = IdleTask]
    /\ UNCHANGED <<core_vars, title_call, scraper_vars, control_vars>>

InitLimiter ==
    /\ CoreIdle
    /\ title_call = NoTitleCall
    /\ LimiterIdle
    /\ ScraperIdle
    /\ ControlIdle

NextLimiter ==
    \/ Tick
    \/ \E t \in Tasks : Acquire(t)
    \/ \E t \in Tasks : LockAcquired(t)
    \/ \E t \in Tasks : AcquireAwake(t)
    \/ \E t \in Tasks, wait_time \in WaitTimes : HandleRateLimitError(t, wait_time)
    \/ \E t \in Tasks : BackoffOver(t)

SpecLimiter == InitLimiter /\ [][NextLimiter]_vars

\* a detail method is called: up to its first await
FirstAttempt(f, max_retries) ==
    /\ fetches[f].pc = "idle"
    /\ LET call == [NoFetch EXCEPT !.max_retries = max_retries]
       IN IF max_retries <= 0
          THEN /\ fetches' = [fetches EXCEPT ![f] = [call EXCEPT !.pc = "done",
                                                                 !.result = "None"]]
               /\ UNCHANGED scraper
          ELSE /\ fetches' = [fetches EXCEPT ![f] = RequestMade(call)]
               /\ scraper' = [scraper EXCEPT !.api_requests = @ + 1]
    /\ UNCHANGED <<core_vars, title_call, limiter_vars, control_vars>>

\* lines 234-305
GetProductDetail(f, max_retries) == FirstAttempt(f, max_retries)

\* lines 165-232
GetProductDetailWithPrice(f, max_retries) == FirstAttempt(f, max_retries)

\* lines 97-163
GetPriceInfo(f, max_retries) == FirstAttempt(f, max_retries)

\* the request is over: from the response to the return or to the sleep
Response(f, response) ==
    /\ fetches[f].pc = "awaiting"
    /\ fetches' = [fetches EXCEPT ![f] = Answered(fetches[f], response)]
    /\ scraper' = IF response = "200 dict"
                  THEN [scraper EXCEPT !.successful_requests = @ + 1]
                  ELSE scraper
    /\ UNCHANGED <<core_vars, title_call, limiter_vars, control_vars>>

\* asyncio.sleep is over: continue, the next attempt up to its request
SleepOver(f) ==
    /\ fetches[f].pc = "sleeping"
    /\ fetches' = [fetches EXCEPT ![f] = RequestMade([fetches[f] EXCEPT !.attempt = @ + 1])]
    /\ scraper' = [scraper EXCEPT !.api_requests = @ + 1]
    /\ UNCHANGED <<core_vars, title_call, limiter_vars, control_vars>>

InitScraper ==
    /\ CoreIdle
    /\ title_call = NoTitleCall
    /\ LimiterIdle
    /\ ScraperIdle
    /\ ControlIdle

NextScraper ==
    \/ \E f \in Fetchers, max_retries \in RetryLimits : GetProductDetail(f, max_retries)
    \/ \E f \in Fetchers, max_retries \in RetryLimits :
           GetProductDetailWithPrice(f, max_retries)
    \/ \E f \in Fetchers, max_retries \in RetryLimits : GetPriceInfo(f, max_retries)
    \/ \E f \in Fetchers, response \in Responses : Response(f, response)
    \/ \E f \in Fetchers : SleepOver(f)

\* a request has timeout=20 and a sleep is finite: both come to an end
SpecScraper ==
    /\ InitScraper
    /\ [][NextScraper]_vars
    /\ \A f \in Fetchers : WF_vars(\E response \in Responses : Response(f, response))
    /\ \A f \in Fetchers : WF_vars(SleepOver(f))

\* the thread read a line: input_thread, line 116
Reads ==
    /\ input_thread.pc = "select"
    /\ ~controller.stop_monitoring
    /\ input_thread.commands < MaxCommands

\* _process_command('p'), line 132
Pause ==
    /\ Reads
    /\ controller' = [controller EXCEPT !.paused = TRUE]
    /\ input_thread' = [input_thread EXCEPT !.commands = @ + 1]
    /\ UNCHANGED <<core_vars, title_call, limiter_vars, scraper_vars, pausable>>

\* _process_command('restart'), line 143
RestartRequested ==
    /\ Reads
    /\ controller' = [controller EXCEPT !.restart_requested = TRUE]
    /\ input_thread' = [input_thread EXCEPT
                            !.commands = @ + 1,
                            !.pc = "144",
                            !.restart_while_paused =
                                @ \/ (controller.paused
                                      /\ pausable.pc \in CheckPausePositions)]
    /\ UNCHANGED <<core_vars, title_call, limiter_vars, scraper_vars, pausable>>

\* _process_command('restart'), line 144
RestartUnpauses ==
    /\ input_thread.pc = "144"
    /\ controller' = [controller EXCEPT !.paused = FALSE]
    /\ input_thread' = [input_thread EXCEPT !.pc = "select"]
    /\ UNCHANGED <<core_vars, title_call, limiter_vars, scraper_vars, pausable>>

\* _process_command('c'), lines 148-149; only this thread sets paused
Continue ==
    /\ Reads
    /\ controller' = [controller EXCEPT !.paused = FALSE]
    /\ input_thread' = [input_thread EXCEPT !.commands = @ + 1]
    /\ UNCHANGED <<core_vars, title_call, limiter_vars, scraper_vars, pausable>>

\* _process_command('q'), lines 154-155: sys.exit ends the thread
Quit ==
    /\ Reads
    /\ controller' = [controller EXCEPT !.stop_monitoring = TRUE]
    /\ input_thread' = [input_thread EXCEPT !.commands = @ + 1, !.pc = "exited"]
    /\ UNCHANGED <<core_vars, title_call, limiter_vars, scraper_vars, pausable>>

\* pausable_loop(items, command_name, process_func, start_index), lines 267-272
PausableLoop(len_items, start_index) ==
    /\ pausable.pc = "idle"
    /\ pausable' = LoopTest([NoLoop EXCEPT !.len_items = len_items,
                                           !.start_index = start_index,
                                           !.i = start_index])
    /\ UNCHANGED <<core_vars, title_call, limiter_vars, scraper_vars, controller,
                   input_thread>>

\* check_pause, line 165: if self.restart_requested
CheckRestart ==
    /\ pausable.pc = "165"
    /\ pausable' = [pausable EXCEPT
                        !.pc = IF controller.restart_requested THEN "168" ELSE "171"]
    /\ UNCHANGED <<core_vars, title_call, limiter_vars, scraper_vars, controller,
                   input_thread>>

\* check_pause, lines 168-169 and 188-189: the flag is cleared, False is
\* returned and the loop starts again
ReturnFalse ==
    /\ pausable.pc \in {"168", "188"}
    /\ controller' = [controller EXCEPT !.restart_requested = FALSE]
    /\ pausable' = Restart(pausable)
    /\ input_thread' = [input_thread EXCEPT !.restart_while_paused = FALSE]
    /\ UNCHANGED <<core_vars, title_call, limiter_vars, scraper_vars>>

\* check_pause, line 171: if self.paused; when it is not, line 191 returns
\* True and process_func is called
CheckPaused ==
    /\ pausable.pc = "171"
    /\ pausable' = [pausable EXCEPT !.pc = IF controller.paused THEN "182" ELSE "290"]
    /\ UNCHANGED <<core_vars, title_call, limiter_vars, scraper_vars, controller,
                   input_thread>>

\* check_pause, line 182: while self.paused ...
WhilePaused ==
    /\ pausable.pc = "182"
    /\ pausable' = [pausable EXCEPT !.pc = IF controller.paused THEN "182 and" ELSE "185"]
    /\ UNCHANGED <<core_vars, title_call, limiter_vars, scraper_vars, controller,
                   input_thread>>

\* check_pause, lines 182-183: ... and not self.restart_requested, then the sleep
WhileNoRestart ==
    /\ pausable.pc = "182 and"
    /\ pausable' = [pausable EXCEPT
                        !.pc = IF controller.restart_requested THEN "185" ELSE "182"]
    /\ UNCHANGED <<core_vars, title_call, limiter_vars, scraper_vars, controller,
                   input_thread>>

\* check_pause, line 185: if self.restart_requested; when it is not, line 191
\* returns True and process_func is called
CheckRestartAfterPause ==
    /\ pausable.pc = "185"
    /\ pausable' = [pausable EXCEPT
                        !.pc = IF controller.restart_requested THEN "188" ELSE "290"]
    /\ UNCHANGED <<core_vars, title_call, limiter_vars, scraper_vars, controller,
                   input_thread>>

\* pausable_loop, lines 289-300 and the loop test after them
Process(outcome) ==
    /\ pausable.pc = "290"
    /\ pausable' = Processed(pausable, outcome)
    /\ UNCHANGED <<core_vars, title_call, limiter_vars, scraper_vars, controller,
                   input_thread>>

InitControl ==
    /\ CoreIdle
    /\ title_call = NoTitleCall
    /\ LimiterIdle
    /\ ScraperIdle
    /\ ControlIdle

NextControl ==
    \/ Pause
    \/ RestartRequested
    \/ RestartUnpauses
    \/ Continue
    \/ Quit
    \/ \E len_items \in 0..MaxItems, start_index \in 0..MaxItems :
           PausableLoop(len_items, start_index)
    \/ CheckRestart
    \/ ReturnFalse
    \/ CheckPaused
    \/ WhilePaused
    \/ WhileNoRestart
    \/ CheckRestartAfterPause
    \/ \E outcome \in Outcomes : Process(outcome)

SpecControl == InitControl /\ [][NextControl]_vars

StoreOnly ==
    UNCHANGED <<processed_count, valid_count, invalid_reasons, product_data,
                reference_sku_id, category_ids, result, prev_result, repeat_calls,
                categories_flat, child_call, filter_call, price_call, side_vars>>

\* db.add_product_stub(spu_id, reference_sku_id, category_ids)
add_product_stub(spu_id, sku_id, ids) ==
    /\ Matching(products, spu_id, sku_id) # {} \/ Len(products) < MaxProducts
    /\ products' = IF Matching(products, spu_id, sku_id) # {} THEN products
                   ELSE Append(products, Row(spu_id, sku_id, 0, ids, FALSE, <<>>))
    /\ StoreOnly

\* db.add_product(product_data, reference_sku_id, category_ids)
add_product(spu_id, data, sku_id, ids) ==
    /\ \/ Len(products) < MaxProducts
       \/ Rejected(categories_flat, ids, data.variants)
       \/ Collides(products, spu_id, sku_id)
    /\ IF Rejected(categories_flat, ids, data.variants) \/ Collides(products, spu_id, sku_id)
       THEN products' = products
       ELSE products' = Append(products,
                               Added(spu_id, data, sku_id,
                                     FilteredIds(categories_flat, ids, data.variants).value))
    /\ StoreOnly

\* db.load_product_data(product_id, product_data)
load_product_data(product_id, data) ==
    /\ IF product_id \notin 1..Len(products)
       THEN products' = products
       ELSE IF AlreadyLoaded(products[product_id])
       THEN products' = products
       ELSE IF Rejected(categories_flat, products[product_id].category_ids, data.variants)
       THEN products' = products
       ELSE products' = [products EXCEPT ![product_id] =
                            Loaded(@, data, FilteredIds(categories_flat, @.category_ids,
                                                        data.variants).value)]
    /\ StoreOnly

\* db.update_product(spu_id, product_data, reference_sku_id)
update_product(spu_id, data, sku_id) ==
    /\ IF Matching(products, spu_id, sku_id) = {}
       THEN products' = products
       ELSE IF data.has_variants /\ RaisesValueError(data.variants)
       THEN products' = products
       ELSE \E i \in Matching(products, spu_id, sku_id) :
               products' = [products EXCEPT ![i] = Updated(@, data)]
    /\ StoreOnly

\* db.update_product_prices_only(spu_id, price_info, reference_sku_id)
update_product_prices_only(spu_id, price_skus, sku_id) ==
    /\ IF Matching(products, spu_id, sku_id) = {}
       THEN products' = products
       ELSE \E i \in Matching(products, spu_id, sku_id) :
               products' = [products EXCEPT ![i] = PricedRow(@, price_skus)]
    /\ StoreOnly

AddProductStub ==
    \E spu_id \in SpuIds, sku_id \in StoreSkuIds, ids \in StoreCategoryLists :
        add_product_stub(spu_id, sku_id, ids)
AddProduct ==
    \E spu_id \in SpuIds, data \in DataChoices, sku_id \in StoreSkuIds,
       ids \in StoreCategoryLists : add_product(spu_id, data, sku_id, ids)
LoadProductData ==
    \E product_id \in 1..(MaxProducts + 1), data \in DataChoices :
        load_product_data(product_id, data)
UpdateProduct ==
    \E spu_id \in SpuIds, data \in DataChoices, sku_id \in StoreSkuIds :
        update_product(spu_id, data, sku_id)
UpdateProductPricesOnly ==
    \E spu_id \in SpuIds, price_skus \in PriceSkusChoices, sku_id \in StoreSkuIds :
        update_product_prices_only(spu_id, price_skus, sku_id)

InitStore ==
    /\ IdleProcessor
    /\ categories_flat = DefaultTree
    /\ child_call = NoChildCall
    /\ filter_call = NoFilterCall
    /\ price_call = NoPriceCall
    /\ EmptyStore
    /\ SideIdle

NextStore ==
    \/ AddProductStub
    \/ AddProduct
    \/ LoadProductData
    \/ UpdateProduct
    \/ UpdateProductPricesOnly

SpecStore == InitStore /\ [][NextStore]_vars

(***************************************************************************)
(* Properties of parse_product_detail.  Once repeat_calls >= 1 the record  *)
(* in result is what the call returned for product_data, reference_sku_id  *)
(* and category_ids.                                                       *)
(***************************************************************************)
Called == repeat_calls >= 1
Skus == product_data.skus
Variants == result.variants
VariantIds == {Variants[j].sku_id : j \in 1..Len(Variants)}
\* the position in the document of the SKU a variant was made from
SkuAt(sku_id) == CHOOSE i \in 1..Len(Skus) : Skus[i].skuId = sku_id

\* C1: no SKU whose status is not 1 contributes a variant, even when its size
\* and price resolve; every emitted variant has stock_status 1 and is available.
C1_UnavailableSkuNeverEmitted ==
    Called =>
        /\ \A j \in 1..Len(Variants) :
              Variants[j].stock_status = 1 /\ Variants[j].is_available
        /\ \A i \in 1..Len(Skus) : Skus[i].status # 1 => Skus[i].skuId \notin VariantIds

\* a product holding an out-of-stock SKU with the properties and prices of a
\* SKU that did become a variant
C1_Witness ==
    /\ Called /\ result.ok
    /\ \E i, k \in 1..Len(Skus) :
          /\ Skus[i].status # 1 /\ Skus[k].status = 1
          /\ Skus[i].properties = Skus[k].properties
          /\ Skus[i].prices = Skus[k].prices
          /\ Skus[k].skuId \in VariantIds

\* the price list a variant's price was read from, named by its price_source
InfoList(sku_id) ==
    IF sku_id \in DOMAIN product_data.priceInfo THEN product_data.priceInfo[sku_id]
    ELSE <<>>
SourceList(v) ==
    IF v.price_source = "priceInfo" THEN InfoList(v.sku_id) ELSE Skus[SkuAt(v.sku_id)].prices
Fen(v) == v.price_cny * FenPerYuan
TierPrices(tier) == {tier.price, tier.activePrice}
HasType(L, trade_type) == \E k \in 1..Len(L) : L[k].tradeType = trade_type
FastWindow(tier) ==
    tier.timeDelivery.isdict /\ tier.timeDelivery.hasmax /\ tier.timeDelivery.max <= 4
FastStandards(L) == {k \in 1..Len(L) : L[k].tradeType = 2 /\ FastWindow(L[k])}

\* the place of a tier in the order 2 (fast), 12, 0, 8, 11; 6 for a tier never used
Rank(tier) ==
    IF tier.tradeType = 2 /\ FastWindow(tier) THEN 1
    ELSE IF tier.tradeType = 12 THEN 2
    ELSE IF tier.tradeType = 0 THEN 3
    ELSE IF tier.tradeType = 8 THEN 4
    ELSE IF tier.tradeType = 11 THEN 5
    ELSE 6
Usable(L) == \E k \in 1..Len(L) : Rank(L[k]) < 6
Best(L) ==
    CHOOSE k \in 1..Len(L) :
        /\ Rank(L[k]) < 6
        /\ \A j \in 1..Len(L) : Rank(L[j]) > Rank(L[k]) \/ (Rank(L[j]) = Rank(L[k]) /\ j >= k)

\* C2 as stated: whenever the price list holds a tier of trade_type 2 and a tier
\* of trade_type 8, the emitted price is a tier-2 price and never the tier-8 price.
C2_StandardAlwaysBeatsDiscount ==
    Called =>
        \A j \in 1..Len(Variants) :
            (HasType(SourceList(Variants[j]), 2) /\ HasType(SourceList(Variants[j]), 8)) =>
                /\ \E k \in 1..Len(SourceList(Variants[j])) :
                      /\ SourceList(Variants[j])[k].tradeType = 2
                      /\ Fen(Variants[j]) \in TierPrices(SourceList(Variants[j])[k])
                /\ ~\E k \in 1..Len(SourceList(Variants[j])) :
                      /\ SourceList(Variants[j])[k].tradeType = 8
                      /\ Fen(Variants[j]) \in TierPrices(SourceList(Variants[j])[k])

\* C2, amended: whenever the price list a variant's price is read from holds a
\* tier of trade_type 2 with delivery-window max <= 4 and a tier of trade_type 8,
\* the emitted price is that of the first such tier-2 and never the tier-8 price.
C2_FastStandardBeatsDiscount ==
    Called =>
        \A j \in 1..Len(Variants) :
            (FastStandards(SourceList(Variants[j])) # {} /\ HasType(SourceList(Variants[j]), 8)) =>
                /\ Fen(Variants[j]) \in
                      TierPrices(SourceList(Variants[j])[Least(FastStandards(SourceList(Variants[j])))])
                /\ ~\E k \in 1..Len(SourceList(Variants[j])) :
                      /\ SourceList(Variants[j])[k].tradeType = 8
                      /\ Fen(Variants[j]) \in TierPrices(SourceList(Variants[j])[k])

\* a variant priced from a list where the discount tier stands before the fast
\* tier of type 2
C2_Witness ==
    /\ Called /\ result.ok
    /\ \E j \in 1..Len(Variants) :
          /\ FastStandards(SourceList(Variants[j])) # {}
          /\ SourceList(Variants[j])[1].tradeType = 8

\* C3: the tier used is the first match in the order: type 2 with delivery max
\* <= 4, then 12, then 0, then 8, then 11; no other tier is used, and a SKU whose
\* price lists hold none of these produces no variant.
C3_TierPriority ==
    Called =>
        /\ \A j \in 1..Len(Variants) :
              /\ Usable(SourceList(Variants[j]))
              /\ Fen(Variants[j]) \in
                     TierPrices(SourceList(Variants[j])[Best(SourceList(Variants[j]))])
              /\ Variants[j].price_source # "priceInfo" =>
                     Variants[j].price_type =
                         SourceList(Variants[j])[Best(SourceList(Variants[j]))].tradeType
        /\ \A i \in 1..Len(Skus) :
              (~Usable(Skus[i].prices) /\ ~Usable(InfoList(Skus[i].skuId))) =>
                  Skus[i].skuId \notin VariantIds

\* a variant priced from a list of several usable tiers whose first is not the
\* one the order picks, next to a tier of a type outside the order
C3_Witness ==
    /\ Called /\ result.ok
    /\ \E j \in 1..Len(Variants) :
          /\ Len(SourceList(Variants[j])) >= 3
          /\ Rank(SourceList(Variants[j])[1]) < 6
          /\ Best(SourceList(Variants[j])) # 1
          /\ \E k \in 1..Len(SourceList(Variants[j])) : Rank(SourceList(Variants[j])[k]) = 6

\* C4 as stated: the base price is the selected tier's active price / 100 when
\* that is present and positive, else its plain price / 100, and is positive.
C4_ActivePricePreferred ==
    Called =>
        \A j \in 1..Len(Variants) :
            /\ Variants[j].price_cny > 0
            /\ Usable(SourceList(Variants[j])) =>
                  Fen(Variants[j]) =
                      IF SourceList(Variants[j])[Best(SourceList(Variants[j]))].activePrice > 0
                      THEN SourceList(Variants[j])[Best(SourceList(Variants[j]))].activePrice
                      ELSE SourceList(Variants[j])[Best(SourceList(Variants[j]))].price

\* C5 as stated: the returned variants are ordered by size: shoes numerically
\* with non-numeric labels last, clothing by the ordinal table, accessories in
\* SKU order.
C5_VariantsSortedBySize ==
    (Called /\ result.ok) =>
        \A i, j \in 1..Len(Variants) :
            i < j =>
                IF Variants[i].size_type = "accessories"
                THEN SkuAt(Variants[i].sku_id) < SkuAt(Variants[j].sku_id)
                ELSE SizeKey(Variants[i].size_eu, Variants[i].size_type)
                         <= SizeKey(Variants[j].size_eu, Variants[j].size_type)

\* C5, amended: for shoes, clothing and accessories alike the returned variants
\* stand in the order of their SKUs in the document; no sort is applied to them.
C5_VariantsInSkuOrder ==
    (Called /\ result.ok) =>
        \A i, j \in 1..Len(Variants) :
            i < j => SkuAt(Variants[i].sku_id) < SkuAt(Variants[j].sku_id)

\* shoes returned with a larger size before a smaller one
C5_Witness ==
    /\ Called /\ result.ok
    /\ \E i, j \in 1..Len(Variants) :
          /\ i < j
          /\ Variants[i].size_type = "shoes"
          /\ ParseFloat(Variants[i].size_eu) # NotAFloat
          /\ ParseFloat(Variants[j].size_eu) # NotAFloat
          /\ ParseFloat(Variants[i].size_eu) > ParseFloat(Variants[j].size_eu)

\* the SKUs of an accessory that resolve to "ONE SIZE", are in stock and priced
IsAccessory == SizeType(product_data, category_ids) = "accessories"
GoodOneSizeSkus ==
    {i \in 1..Len(Skus) :
        /\ ResolveSize(Skus[i], "accessories", <<>>) = ONE_SIZE
        /\ Skus[i].status = 1
        /\ ResolvePrice(Skus[i], product_data).kind = "price"}
OneSizeVariants == {j \in 1..Len(Variants) : Variants[j].size_eu = ONE_SIZE}
AllTiers ==
    UNION {{Skus[i].prices[k] : k \in 1..Len(Skus[i].prices)} : i \in 1..Len(Skus)}
    \cup UNION {{product_data.priceInfo[id][k] : k \in 1..Len(product_data.priceInfo[id])} :
                   id \in DOMAIN product_data.priceInfo}
\* every tier carries a timeDelivery object, so that no price lookup raises
NullFree == \A tier \in AllTiers : tier.timeDelivery.isdict

C7_AccessoryOnlyOneSize ==
    (Called /\ IsAccessory) =>
        \A j \in 1..Len(Variants) : Variants[j].size_eu = ONE_SIZE

ParentOf(c) == IF c \in DOMAIN categories_flat THEN categories_flat[c] ELSE 0
RECURSIVE Ancestor(_, _)
Ancestor(c, n) == IF n = 0 THEN c ELSE ParentOf(Ancestor(c, n - 1))
Steps == Cardinality(DOMAIN categories_flat)
OnCycle(c) == \E n \in 1..Steps : Ancestor(c, n) = c
EndsAtRoot(c) == \E n \in 1..(Steps + 1) : Ancestor(c, n) = 0
SelfCall == child_call.outcome # "none" /\ child_call.category_id = child_call.parent_id

C11_AlwaysBoolean ==
    child_call.outcome # "none" => child_call.outcome \in {"True", "False"}

(***************************************************************************)
(* Properties of CategoryFilter.analyze_sizes and filter_categories.       *)
(***************************************************************************)
AnalysisDone == filter_call.op = "analyze_sizes" /\ filter_call.done
FilterDone == filter_call.op = "filter_categories" /\ filter_call.done
Requested == filter_call.category_ids
Filtered == filter_call.outcome.value
SizeOf(i) == ParseFloat(filter_call.sizes[i])
NumericSizes == {i \in 1..Len(filter_call.sizes) : SizeOf(i) # NotAFloat}
Count(ids, c) == Cardinality({i \in 1..Len(ids) : ids[i] = c})
Members(ids) == {ids[i] : i \in 1..Len(ids)}
SameMembers(a, b) == \A c \in Members(a) \cup Members(b) : Count(a, c) = Count(b, c)
DescendsFrom(c, root) == \E n \in 1..Steps : Ancestor(c, n) = root
InBranch(c, root) == c = root \/ DescendsFrom(c, root)
SpansBothRoots ==
    /\ \E c \in Members(Requested) : InBranch(c, MEN_PARENT_ID)
    /\ \E c \in Members(Requested) : InBranch(c, WOMEN_PARENT_ID)
ShoeCall == FilterDone /\ filter_call.size_type = "shoes" /\ SpansBothRoots
MenSizesOnly == NumericSizes # {} /\ \A i \in NumericSizes : SizeOf(i) >= MEN_MIN_SIZE
WomenSizesOnly == NumericSizes # {} /\ \A i \in NumericSizes : SizeOf(i) <= WOMEN_MAX_SIZE
\* the requested list without the categories of the branch under root
Without(root) ==
    \A c \in Members(Requested) \cup Members(Filtered) :
        Count(Filtered, c) = IF InBranch(c, root) THEN 0 ELSE Count(Requested, c)

\* C12 as stated: for a shoe product whose numeric sizes are all >= 39.5 and
\* whose categories span both gender roots, filter_categories returns the men's
\* branch and the non-shoe categories, and no category that is, or descends
\* from, the women's root 102 remains; symmetrically for sizes all <= 39.0.
C12_OtherGenderBranchRemoved ==
    /\ ShoeCall /\ MenSizesOnly =>
          filter_call.outcome.raised = "" /\ Without(WOMEN_PARENT_ID)
    /\ ShoeCall /\ WomenSizesOnly =>
          filter_call.outcome.raised = "" /\ Without(MEN_PARENT_ID)

OneNumericSize == AnalysisDone /\ Len(filter_call.sizes) = 1 /\ NumericSizes = {1}
IsWomen == filter_call.analysis.has_women_sizes
IsMen == filter_call.analysis.has_men_sizes

\* C13 as stated: every size label that parses as a number satisfies exactly one
\* of "size <= 39.0" and "size >= 39.5": none satisfies both, none neither.
C13_ExactlyOneSide == OneNumericSize => (IsWomen /\ ~IsMen) \/ (IsMen /\ ~IsWomen)

\* C13, amended: no numeric size satisfies both "size <= 39.0" and
\* "size >= 39.5"; a numeric size satisfies neither exactly when it lies strictly
\* between 39.0 and 39.5, and exactly one of them otherwise.
C13_NeverBothSides ==
    OneNumericSize =>
        /\ ~(IsWomen /\ IsMen)
        /\ (~IsWomen /\ ~IsMen) <=> (WOMEN_MAX_SIZE < SizeOf(1) /\ SizeOf(1) < MEN_MIN_SIZE)

\* analyze_sizes(["39.2"]) has answered (False, False)
C13_Witness ==
    /\ OneNumericSize
    /\ filter_call.sizes = <<L392>>
    /\ ~IsWomen
    /\ ~IsMen

MixedSizes ==
    /\ \E i \in NumericSizes : SizeOf(i) <= WOMEN_MAX_SIZE
    /\ \E i \in NumericSizes : SizeOf(i) >= MEN_MIN_SIZE

\* C14: for a size list that holds both a value <= 39.0 and a value >= 39.5, or
\* no numeric size at all, filter_categories returns a list with exactly the
\* members of the input list: the order may differ, nothing is dropped, added
\* or duplicated.
C14_MixedOrNoSizesKeepAll ==
    FilterDone /\ (MixedSizes \/ NumericSizes = {}) =>
        /\ filter_call.outcome.raised = ""
        /\ SameMembers(Filtered, Requested)

\* a shoe call with labels none of which is numeric has returned the requested
\* categories of both gender branches, in another order
C14_Witness ==
    /\ ShoeCall
    /\ filter_call.sizes # <<>>
    /\ NumericSizes = {}
    /\ Filtered # Requested
    /\ SameMembers(Filtered, Requested)

(***************************************************************************)
(* Properties of PriceCalculator.calculate_price.                          *)
(***************************************************************************)
PriceDone == price_call.op = "calculate_price" /\ price_call.done
Config == price_call.config
HasOverride ==
    /\ price_call.category_id \in DOMAIN Config.formulas
    /\ price_call.delivery_days \in DOMAIN Config.formulas[price_call.category_id]
HasTierDefault == price_call.delivery_days \in DOMAIN Config.default_formula
Resolved ==
    IF HasOverride THEN Config.formulas[price_call.category_id][price_call.delivery_days]
    ELSE IF HasTierDefault THEN Config.default_formula[price_call.delivery_days]
    ELSE StandardFormula
Evaluated == Eval(Resolved, Env(Config, price_call.price_cny, price_call.category_id))
Price == price_call.outcome.price

\* C19: calculate_price applies the category-specific formula when one is
\* configured for (category_id, delivery tier) and the tier's default formula
\* otherwise, exactly; with a = 12, b = 1.2 and the default (x*a+400)*b,
\* calculate_price(100, category without override, "21-26 days") is 1920.0.
C19_ResolvedFormulaApplied ==
    /\ PriceDone /\ Evaluated.error = "" =>
          price_call.outcome.raised = "" /\ Price = Round2(Evaluated.v)
    /\ PriceDone /\ Config = DefaultConfig /\ price_call.price_cny = Whole(100)
          /\ price_call.delivery_days = SlowTier => Price = 192000

\* calculate_price(100, 154, "21-26 days") under the default configuration,
\* which holds no formula for category 154, has returned 1920.0
C19_Witness ==
    /\ PriceDone
    /\ Config = DefaultConfig
    /\ price_call.price_cny = Whole(100)
    /\ price_call.category_id = 154
    /\ price_call.delivery_days = SlowTier
    /\ ~HasOverride
    /\ Price = 192000

EvaluationFails ==
    Evaluated.error \in {"SyntaxError", "ZeroDivisionError", "NameError", "TypeError"}
\* base_price * 2.5 rounded to 2 decimals, in hundredths
LinearFallback ==
    Round2(Frac(price_call.price_cny.num * 5, price_call.price_cny.den * 2))

\* C20: when evaluating the resolved formula fails (malformed formula, division
\* by zero, unknown name), calculate_price does not raise and returns
\* base_price * 2.5 rounded to 2 decimals.
C20_FallbackOnFailure ==
    PriceDone /\ EvaluationFails =>
        price_call.outcome.raised = "" /\ Price = LinearFallback

\* a formula dividing by a - 12 = 0 was resolved for 123.4 CNY and the call has
\* returned 308.5
C20_Witness ==
    /\ PriceDone
    /\ Evaluated.error = "ZeroDivisionError"
    /\ price_call.price_cny = Frac(1234, 10)
    /\ price_call.outcome.raised = ""
    /\ Price = 30850

\* the names of a formula that are neither x nor a parameter
BoundNames == {"x", "a", "b", "c"}
OtherNames(formula) ==
    {formula[k].s : k \in {j \in 1..Len(formula) : formula[j].t = "name"}} \ BoundNames
\* the price that x and the parameters alone determine for the resolved formula
PriceOverBoundNames ==
    PriceOf(Eval(Resolved, EnvBoundOnly(Config, price_call.price_cny,
                                        price_call.category_id)),
            price_call.price_cny).price

\* C21 as stated: a formula that names anything but x and the parameters is
\* never evaluated successfully (calculate_price returns the fallback), and the
\* price calculate_price returns is the one the formula, x and the parameters
\* determine, whatever else the call is given.
C21_ConfinedToBoundVariables ==
    PriceDone =>
        /\ OtherNames(Resolved) # {} => Evaluated.error # "" /\ Price = LinearFallback
        /\ Price = PriceOverBoundNames

VariantPricesDone == price_call.op = "calculate_prices_for_variant" /\ price_call.done
\* the tiers the configuration names, in its default or its category formulas
ConfiguredTiers(config) ==
    DOMAIN config.default_formula
        \cup UNION {DOMAIN config.formulas[c] : c \in DOMAIN config.formulas}

\* C22 as stated: calculate_prices_for_variant returns a mapping whose key set
\* is exactly the set of delivery tiers of the pricing configuration, each tier
\* mapped to calculate_price(base_price, category_id, tier).
C22_OnePricePerConfiguredTier ==
    VariantPricesDone =>
        /\ DOMAIN price_call.prices = ConfiguredTiers(Config)
        /\ \A t \in DOMAIN price_call.prices :
              price_call.prices[t] = calculate_price(Config, price_call.price_cny,
                                                    price_call.category_id, t).price

(***************************************************************************)
(* Properties of the product store.                                        *)
(***************************************************************************)
Rows == 1..Len(products)
Labels(variants) ==
    [k \in 1..Len(variants) |->
        <<variants[k].sku_id, variants[k].size_eu, variants[k].size_type>>]

\* C15 as stated: in every reachable state of the product store a product with
\* data_loaded = false has no variants.
C15_StubHasNoVariants ==
    \A i \in Rows : ~products[i].data_loaded => products[i].variants = <<>>

KeptLabels(variants, price_skus) ==
    SelectSeq(Labels(variants), LAMBDA l : l[1] = 0 \/ l[1] \in DOMAIN price_skus)

\* a step that leaves the number of products and every product's variant labels,
\* category_ids and data_loaded as they were
SameLabelsAndCategories ==
    /\ Len(products') = Len(products)
    /\ \A i \in Rows :
          /\ Labels(products'[i].variants) = Labels(products[i].variants)
          /\ products'[i].category_ids = products[i].category_ids
          /\ products'[i].data_loaded = products[i].data_loaded

NonShoe(data) ==
    data.variants # <<>> /\ \A k \in 1..Len(data.variants) : data.variants[k].size_type # "shoes"

\* C17: once a product is enriched (add_product, or load_product_data while
\* data_loaded is false) no load_product_data, update_product or
\* update_product_prices_only call changes its category_ids, so the size filter
\* acts on it once at most; update_product and update_product_prices_only change
\* no category_ids at all, and a non-shoe product keeps the requested ids
\* unmodified.
C17_CategoriesFilteredOnce ==
    [][/\ \A i \in Rows :
             products[i].data_loaded =>
                 /\ products'[i].data_loaded
                 /\ products'[i].category_ids = products[i].category_ids
       /\ \/ /\ Len(products') = Len(products)
             /\ \A i \in Rows : products'[i].category_ids = products[i].category_ids
          \/ ~(UpdateProduct \/ UpdateProductPricesOnly)
       /\ \A spu_id \in SpuIds, data \in DataChoices, sku_id \in StoreSkuIds,
             ids \in StoreCategoryLists :
             \/ ~NonShoe(data)
             \/ Len(products') <= Len(products)
             \/ products'[Len(products')].category_ids = ids
             \/ ~add_product(spu_id, data, sku_id, ids)
       /\ \A product_id \in Rows, data \in DataChoices :
             \/ ~NonShoe(data)
             \/ /\ Len(products') = Len(products)
                /\ products'[product_id].category_ids = products[product_id].category_ids
             \/ ~load_product_data(product_id, data)
      ]_vars

\* a product whose categories [103, 154] were filtered to [103] by men's sizes now
\* holds the women's size 38: update_product replaced the variants and the filter
\* was not applied again
C17_Witness ==
    \E i \in Rows :
        /\ products[i].data_loaded
        /\ products[i].category_ids = <<103>>
        /\ Labels(products[i].variants) = <<<<11, L38, "shoes">>>>

(***************************************************************************)
(* Properties of the colour filter of parse_product_detail.                *)
(***************************************************************************)
ReferencePosition == Least({k \in 1..Len(Skus) : Skus[k].skuId = reference_sku_id})
\* the propertyValueId of the reference SKU's first level-1 attribute, 0 if none
ReferenceAttribute ==
    IF reference_sku_id = 0 \/ ReferencePosition = 0 THEN 0
    ELSE Level1Id(Skus[ReferencePosition].properties,
                  FirstLevel1(Skus[ReferencePosition].properties))
\* saleProperties names that attribute, and not with a colour label
ReferenceIsNoColour ==
    /\ ReferenceAttribute # 0
    /\ \E k \in 1..Len(product_data.saleProperties) :
          product_data.saleProperties[k].propertyValueId = ReferenceAttribute
    /\ \A k \in 1..Len(product_data.saleProperties) :
          product_data.saleProperties[k].propertyValueId = ReferenceAttribute
              => product_data.saleProperties[k].name \notin ColorNames
\* what the call returns when no SKU is skipped for its colour
WithoutColourFilter ==
    Assemble(ExtractSpuId(product_data), ExtractTitle(product_data),
             AllImages(product_data, reference_sku_id),
             SizeType(product_data, category_ids),
             SkuLoop(1, product_data, reference_sku_id,
                     SizeType(product_data, category_ids),
                     EffectivePropertyToSize(product_data,
                                             SizeType(product_data, category_ids)),
                     0,
                     [variants |-> <<>>, found |-> FALSE, noprice |-> 0,
                      raised |-> FALSE])).ret

\* C18 as stated: when reference_sku_id is supplied and the reference SKU's
\* level-1 attribute is named by saleProperties with a label that is not a
\* colour label, no colour-based SKU filtering is applied: the call returns what
\* it returns with every SKU passing the colour test.
C18_NoColourFilterWithoutReferenceColour ==
    Called /\ ReferenceIsNoColour /\ ExtractSpuId(product_data) # 0
           /\ ExtractTitle(product_data) # <<>>
           /\ AllImages(product_data, reference_sku_id) # <<>>
        => result = WithoutColourFilter

(***************************************************************************)
(* Properties of clean_title.                                              *)
(***************************************************************************)
Cleaned == title_call.cleaned
IsAlnumCh(c) == IsAsciiLetterCh(c) \/ IsDigitCh(c)
\* the ASCII letters and digits of a string, in order
Alnums(s) == SelectSeq(s, IsAlnumCh)
\* the position of the n-th ASCII letter or digit of s
AlnumAt(s, n) ==
    CHOOSE i \in 1..Len(s) :
        IsAlnumCh(s[i]) /\ Cardinality({j \in 1..(i - 1) : IsAlnumCh(s[j])}) = n - 1
\* the n-th and the next letter or digit of s are separated by whitespace
Separated(s, n) ==
    \E j \in (AlnumAt(s, n) + 1)..(AlnumAt(s, n + 1) - 1) : IsSpaceCh(s[j])

Grants == limiter.grants

\* C24: whatever the interleaving of the coroutines calling acquire() and
\* handle_rate_limit_error on one limiter, two successive grants of acquire()
\* are at least min_interval (2 s) apart, and total_requests is the number of
\* calls granted.
C24_GrantsSpaced ==
    /\ \A i \in 1..(Len(Grants) - 1) : Grants[i + 1] - Grants[i] >= MinInterval
    /\ limiter.total_requests = Len(Grants)

\* three calls were granted, the last two by coroutines that met the lock held
\* or slept, after a rate-limit error moved last_request_time
C24_Witness ==
    /\ Len(Grants) >= 3
    /\ limiter.rate_limit_errors >= 1
    /\ limiter.total_requests = 3
    /\ \E i \in 1..(Len(Grants) - 1) : Grants[i + 1] - Grants[i] = MinInterval

(***************************************************************************)
(* Properties of the scraper's detail methods.                             *)
(***************************************************************************)
RECURSIVE RequestsOf(_)
\* the requests made by the calls of the coroutines in fs
RequestsOf(fs) ==
    IF fs = {} THEN 0
    ELSE LET f == CHOOSE x \in fs : TRUE
         IN fetches[f].requests + RequestsOf(fs \ {f})
\* the responses that end a call at once
FinalResponses == {"200 dict", "200 list", "404", "500"}
\* what holds of one call at every moment
BoundedRetries(call) ==
    /\ call.requests <= call.max_retries
    /\ call.pc \in {"awaiting", "sleeping"} => call.requests = call.attempt + 1
    /\ call.pc = "sleeping" =>
          /\ call.last = "429" \/ RaisesException(call.last)
          /\ call.requests < call.max_retries
    /\ call.last \in FinalResponses => call.pc = "done"
    /\ call.requests = call.max_retries /\ call.pc \notin {"idle", "awaiting"} =>
          call.pc = "done"
    /\ call.pc = "done" /\ call.result = "data" => call.last = "200 dict"
\* C25: a call of get_product_detail, get_product_detail_with_price or
\* get_price_info makes at most max_retries requests and then returns; it
\* makes a further request only after a 429 or an exception, any other
\* response ends it at once; api_requests is the number of requests made
\* and successful_requests never exceeds it.
C25_BoundedRetries ==
    /\ [](/\ \A f \in Fetchers : BoundedRetries(fetches[f])
          /\ scraper.api_requests = RequestsOf(Fetchers)
          /\ scraper.successful_requests <= scraper.api_requests)
    /\ \A f \in Fetchers : (fetches[f].pc # "idle") ~> (fetches[f].pc = "done")
C25_Witness ==
    /\ fetches["first"].pc = "done"
    /\ fetches["first"].max_retries = 3
    /\ fetches["first"].requests = 3
    /\ fetches["first"].last = "429"
    /\ fetches["second"].pc = "done"
    /\ fetches["second"].requests = 2
    /\ fetches["second"].result = "data"
    /\ scraper.api_requests = 5
    /\ scraper.successful_requests = 1

(***************************************************************************)
(* Properties of pausable_loop and of the execution controller.            *)
(***************************************************************************)
\* the index the loop last started from
StartingIndex == IF pausable.restarts = 0 THEN pausable.start_index ELSE 0
\* the indices from first to len(items) - 1, in order
IndicesFrom(first) ==
    [k \in 1..(IF first < pausable.len_items THEN pausable.len_items - first ELSE 0)
        |-> first + k - 1]
\* the items are taken one after the other from the starting index on
InIndexOrder ==
    \A k \in 1..Len(pausable.processed) : pausable.processed[k] = StartingIndex + k - 1
\* what the loop returns
LoopReturned ==
    pausable.pc = "returned" =>
        /\ pausable.processed = IndicesFrom(StartingIndex)
        /\ pausable.success_count + pausable.failed_count = Len(pausable.processed)
        /\ Len(pausable.results) = pausable.success_count
\* a step that restarts the loop
Restarts == pausable'.restarts # pausable.restarts
\* C26: pausable_loop processes the items in increasing index order; when
\* it returns, every item from the starting index (start_index, or 0 after
\* a restart) to the end was processed exactly once since the last
\* restart, success_count + failed_count is their number and len(results)
\* is success_count; a restart discards the counts and the results.
C26_PausableLoop ==
    /\ [](InIndexOrder /\ LoopReturned)
    /\ [][Restarts => /\ pausable'.i = 0
                      /\ pausable'.results = <<>>
                      /\ pausable'.success_count = 0
                      /\ pausable'.failed_count = 0]_vars
C26_Witness ==
    /\ pausable.pc = "returned"
    /\ pausable.len_items = 3
    /\ pausable.start_index = 2
    /\ pausable.restarts = 1
    /\ pausable.processed = <<0, 1, 2>>
    /\ pausable.results = <<0, 2>>
    /\ pausable.failed_count = 1

\* check_pause has been called and has not returned
CheckPausePending == pausable.pc \in CheckPausePositions
\* a step in which check_pause returns True: process_func is called next
ReturnsTrue == CheckPausePending /\ pausable'.pc = "290"
\* a step in which check_pause returns False: the loop starts again
ReturnsFalse == CheckPausePending /\ pausable'.restarts # pausable.restarts
\* a step in which check_pause leaves the loop of lines 182-183
LeavesWait == pausable.pc \in {"182", "182 and"} /\ pausable'.pc = "185"
\* C27: however the input thread and the loop interleave, a 'restart'
\* command that comes while the controller is paused makes the pending
\* check_pause return False with restart_requested cleared, never True;
\* and check_pause stays in its waiting loop while the controller is paused
\* and no restart is requested.
C27_RestartWhilePaused ==
    [][/\ ReturnsTrue => ~input_thread.restart_while_paused
       /\ ReturnsFalse => ~controller'.restart_requested
       /\ LeavesWait => ~controller.paused \/ controller.restart_requested]_vars
\* the loop has returned without restarting although a restart command came
\* while the controller was paused and check_pause was pending
C27_LostRestart ==
    /\ pausable.pc = "returned"
    /\ pausable.restarts = 0
    /\ pausable.processed = <<0, 1, 2>>
    /\ controller.restart_requested
    /\ input_thread.restart_while_paused

(***************************************************************************)
(* Further properties of parse_product_detail.                             *)
(***************************************************************************)
\* C28: the variants of a successfully normalised product carry pairwise
\* distinct size labels (size_eu).
C28_DistinctSizeLabels ==
    (Called /\ result.ok) =>
        \A i, j \in 1..Len(Variants) :
            i # j => Variants[i].size_eu # Variants[j].size_eu

\* the reasons _log_invalid is called with
Reasons == DOMAIN invalid_reasons
RECURSIVE TotalOf(_)
\* the sum of the counters of the reasons in rs
TotalOf(rs) ==
    IF rs = {} THEN 0
    ELSE LET r == CHOOSE x \in rs : TRUE
         IN invalid_reasons[r] + TotalOf(rs \ {r})
\* C29: processed_count - valid_count is the sum of the invalid_reasons
\* counters: a failed product is counted under exactly one reason and a
\* successfully normalised product under none.
C29_OneReasonPerFailure ==
    processed_count - valid_count = TotalOf(Reasons)

(***************************************************************************)
(* Further properties of the product store.                                *)
(***************************************************************************)
\* C30: an enriched product with a non-empty category_ids list has
\* category_id equal to the first element of category_ids, after add_product
\* and load_product_data and after every update_product and
\* update_product_prices_only that follows.
C30_PrimaryCategoryIsFirst ==
    \A i \in 1..Len(products) :
        (products[i].data_loaded /\ products[i].category_ids # <<>>) =>
            products[i].category_id = products[i].category_ids[1]

====
